---- MODULE Spec2Model ----
(***************************************************************************)
(* State-machine model of the nd-python client library: the business       *)
(* objects (one REST round trip per commit, commit-guard flags, exception  *)
(* translation), the switch-inventory indices and their lookups, and the   *)
(* endpoint descriptors with their query-string builder.                   *)
(*                                                                         *)
(* Python strings are modelled as sequences of tokens, so that string      *)
(* concatenation is \o and "endswith" looks at the last token.  Python     *)
(* dictionaries are modelled as functions with a finite domain.            *)
(***************************************************************************)
EXTENDS Integers, Sequences, FiniteSets, TLC

\* ------------------------------------------------------------------------
\* Bounds
\* ------------------------------------------------------------------------

\* longest switch list the controller returns in one inventory response
MaxSwitches == 2

\* most commit() calls made on one endpoint descriptor
MaxEpCommits == 2

\* ------------------------------------------------------------------------
\* Values
\* ------------------------------------------------------------------------

\* Python's None (also: "key not in the dict" as seen through dict.get)
None == "None"

\* the empty dict {}
EmptyDict == [x \in {} |-> x]

\* d[k] = v on a dict
DictSet(d, k, v) == [x \in (DOMAIN d) \cup {k} |-> IF x = k THEN v ELSE d[x]]

\* d.get(k): None when the key is missing
DictGet(d, k) == IF k \in DOMAIN d THEN d[k] ELSE None

\* d.get(k, default)
DictGetDefault(d, k, default) == IF k \in DOMAIN d THEN d[k] ELSE default

\* no exception raised
NoExc == [type |-> "none", msg |-> <<>>]

\* an exception object: its class and its message text
Exc(t, m) == [type |-> t, msg |-> m]

\* the text s occurs in the message m (both token sequences)
Contains(m, s) ==
    \E i \in 0..(Len(m) - Len(s)) : SubSeq(m, i + 1, i + Len(s)) = s

\* ------------------------------------------------------------------------
\* The controller's switch records
\* ------------------------------------------------------------------------

Hostnames == {"n1", "n2"}
Ipv4Addresses == {"i1", "i2"}
SerialNumbers == {"s1", "s2"}
FabricNames == {<<>>, <<"f1">>}

\* a switch record with all four keys
Switch(h, i, s, v) ==
    [k \in {"hostname", "fabricManagementIp", "serialNumber", "vpcConfigured"} |->
        CASE k = "hostname" -> h
          [] k = "fabricManagementIp" -> i
          [] k = "serialNumber" -> s
          [] OTHER -> v]

\* the dict d without the key k
Without(d, k) == [x \in (DOMAIN d) \ {k} |-> d[x]]

\* The switch records the controller returns: two complete switches that
\* differ in every field, a record that shares its hostname and serial number
\* with the first and its address with the second and is not vPC configured,
\* and records that lack one key each.
CompleteSwitches ==
    { Switch("n1", "i1", "s1", TRUE),
      Switch("n2", "i2", "s2", TRUE),
      Switch("n1", "i2", "s1", FALSE) }

SwitchRecords ==
    CompleteSwitches \cup
    { Without(Switch("n1", "i1", "s1", TRUE), "serialNumber"),
      Without(Switch("n2", "i2", "s2", TRUE), "hostname"),
      Without(Switch("n2", "i2", "s1", TRUE), "fabricManagementIp") }

\* the "switches" lists of the controller's responses
SwitchLists == UNION { [1..n -> SwitchRecords] : n \in 0..MaxSwitches }

\* the errors rest_send raises that the callers catch
RestErrors == { Exc("ValueError", <<"e1">>), Exc("TypeError", <<"e2">>) }

\* Outcomes of a "try: rest_send.path = ..; rest_send.verb = ..;
\* rest_send.payload = ..; rest_send.commit()" block: every statement
\* succeeds, or the statement `at` raises `err`.
TryOk == [at |-> "none", err |-> NoExc]

TryErrors(stages) == { [at |-> st, err |-> e] : st \in stages, e \in RestErrors }

TryOutcomes(stages) == {TryOk} \cup TryErrors(stages)

\* the statements of the block without and with a payload
GetStages == {"path", "verb", "commit"}
PostStages == {"path", "verb", "payload", "commit"}

\* the request rest_send.commit() is called with
Request(endpoint, payload) ==
    [verb |-> endpoint.verb, path |-> endpoint.path, payload |-> payload]

\* a slip: the except clause raises its own message without the error's text
TrySendWithoutDetails(endpoint, payload, out, prefix) ==
    IF out.err = NoExc
    THEN [calls |-> <<Request(endpoint, payload)>>, exc |-> NoExc, orig |-> NoExc]
    ELSE [calls |-> IF out.at = "commit" THEN <<Request(endpoint, payload)>> ELSE <<>>,
          exc |-> Exc("ValueError", prefix),
          orig |-> out.err]

\* The try block and its except clause: the requests rest_send.commit() was
\* called with, the ValueError raised (NoExc when the block succeeds) and the
\* error it translates.
TrySend(endpoint, payload, out, prefix) ==
    IF out.err = NoExc
    THEN [calls |-> <<Request(endpoint, payload)>>, exc |-> NoExc, orig |-> NoExc]
    ELSE [calls |-> IF out.at = "commit" THEN <<Request(endpoint, payload)>> ELSE <<>>,
          exc |-> Exc("ValueError", prefix \o <<"Error details: ">> \o out.err.msg),
          orig |-> out.err]

\* ------------------------------------------------------------------------
\* EpSwitchesInventoryGet
\* ------------------------------------------------------------------------

SWITCHES == <<"/switches">>

EpSwitchesInventoryGetInit ==
    [kind |-> "EpSwitchesInventoryGet", verb |-> "GET", path |-> SWITCHES,
     fabric_name |-> <<>>]

\* the path EpSwitchesInventoryGet.commit() builds
EpSwitchesInventoryGetPath(fabric_name) ==
    SWITCHES \o <<"?fabricName=">> \o fabric_name

\* a slip: the parameter is appended to the path the endpoint holds
EpSwitchesInventoryGetCommitAppending(ep) ==
    IF ep.fabric_name = <<>>
    THEN [ep |-> ep,
          exc |-> Exc("ValueError", <<"fabric_name must be set before committing the endpoint">>)]
    ELSE [ep |-> [ep EXCEPT !.path = @ \o <<"?fabricName=">> \o ep.fabric_name],
          exc |-> NoExc]

\* EpSwitchesInventoryGet.commit(): [ep, exc]
EpSwitchesInventoryGetCommit(ep) ==
    IF ep.fabric_name = <<>>
    THEN [ep |-> ep,
          exc |-> Exc("ValueError", <<"fabric_name must be set before committing the endpoint">>)]
    ELSE [ep |-> [ep EXCEPT !.path = EpSwitchesInventoryGetPath(ep.fabric_name)],
          exc |-> NoExc]

\* a slip: the setter rebuilding the path at once
EpSwitchesInventoryGetSetFabricNameEager(ep, value) ==
    [ep EXCEPT !.fabric_name = value,
               !.path = SWITCHES \o <<"?fabricName=">> \o value]

\* EpSwitchesInventoryGet.fabric_name = value
EpSwitchesInventoryGetSetFabricName(ep, value) ==
    [ep EXCEPT !.fabric_name = value]

\* ------------------------------------------------------------------------
\* QueryFilterGeneric and EpFabricsGet
\* ------------------------------------------------------------------------

FABRICS == <<"/api/v1/manage/fabrics">>

QueryFilterGenericInit ==
    [commited |-> FALSE, filter |-> <<>>, limit |-> 0, max |-> 0, offset |-> 0,
     query_string |-> <<>>, sort |-> <<>>]

\* a slip: the trailing "&" is kept
KeepTrailingAmpersand(s) == s

\* s[:-1] when s.endswith("&")
StripTrailingAmpersand(s) ==
    IF Len(s) > 0 /\ s[Len(s)] = "&" THEN SubSeq(s, 1, Len(s) - 1) ELSE s

\* QueryFilterGeneric.commit()
QueryFilterGenericCommit(q) ==
    LET s1 == q.query_string \o
              (IF q.filter # <<>> THEN <<"filter=">> \o q.filter \o <<"&">> ELSE <<>>)
        s2 == s1 \o (IF q.limit # 0 THEN <<"limit=", ToString(q.limit), "&">> ELSE <<>>)
        s3 == s2 \o (IF q.max # 0 THEN <<"max=", ToString(q.max), "&">> ELSE <<>>)
        s4 == s3 \o (IF q.offset # 0 THEN <<"offset=", ToString(q.offset), "&">> ELSE <<>>)
        s5 == s4 \o (IF q.sort # <<>> THEN <<"sort=">> \o q.sort \o <<"&">> ELSE <<>>)
    IN  [q EXCEPT !.query_string = StripTrailingAmpersand(s5), !.commited = TRUE]

\* the setters of QueryFilterGeneric
QueryFilterGenericSet(q, name, value) ==
    CASE name = "filter" -> [q EXCEPT !.filter = value]
      [] name = "limit" -> [q EXCEPT !.limit = value]
      [] name = "max" -> [q EXCEPT !.max = value]
      [] name = "offset" -> [q EXCEPT !.offset = value]
      [] OTHER -> [q EXCEPT !.sort = value]

EpFabricsGetInit ==
    [kind |-> "EpFabricsGet", verb |-> "GET", path |-> FABRICS,
     query_string |-> QueryFilterGenericInit]

\* EpFabricsGet.commit()
EpFabricsGetCommit(ep) ==
    LET q == QueryFilterGenericCommit(ep.query_string)
    IN  [ep EXCEPT !.query_string = q,
                   !.path = IF q.query_string # <<>>
                            THEN FABRICS \o <<"?">> \o q.query_string
                            ELSE ep.path]

\* ------------------------------------------------------------------------
\* SwitchesInventoryGet
\* ------------------------------------------------------------------------

SwitchesInventoryGetInit ==
    [kind |-> "SwitchesInventoryGet",
     committed |-> FALSE,
     rest_send |-> "RestSend",
     fabric_name |-> <<>>,
     endpoint |-> EpSwitchesInventoryGetInit,
     inventory_data |-> <<>>,
     inventory_by_switch_name |-> EmptyDict,
     inventory_by_switch_ipv4_address |-> EmptyDict,
     inventory_by_switch_serial_number |-> EmptyDict]

\* the loop shared by the three _build_inventory_by_* methods: walk the list,
\* skip records whose key field is None, later records overwrite earlier ones
RECURSIVE BuildLoop(_, _, _)
BuildLoop(d, data, field) ==
    IF data = <<>> THEN d
    ELSE LET switch == Head(data)
             key == DictGet(switch, field)
         IN  BuildLoop(IF key = None THEN d ELSE DictSet(d, key, switch),
                       Tail(data), field)

\* a slip in the name index: a hostname seen before is not overwritten
BuildLoopFirstWins(d, data, field) ==
    LET Keep(i) == \A j \in 1..(i - 1) : DictGet(data[j], field) # DictGet(data[i], field)
        kept == SelectSeq([i \in 1..Len(data) |-> <<i, data[i]>>], LAMBDA p : Keep(p[1]))
    IN  BuildLoop(d, [i \in 1..Len(kept) |-> kept[i][2]], field)

build_inventory_by_switch_ipv4_address(data) ==
    BuildLoop(EmptyDict, data, "fabricManagementIp")

build_inventory_by_switch_name_first_wins(data) ==
    BuildLoopFirstWins(EmptyDict, data, "hostname")

build_inventory_by_switch_name(data) ==
    BuildLoop(EmptyDict, data, "hostname")

\* a copy-and-paste slip: the serial-number index keyed on the hostname
build_inventory_by_switch_serial_number_wrong_key(data) ==
    BuildLoop(EmptyDict, data, "hostname")

build_inventory_by_switch_serial_number(data) ==
    BuildLoop(EmptyDict, data, "serialNumber")

\* SwitchesInventoryGet.commit() on the object o, with the outcome `out` of
\* its try block and the switch list `switches` of the response.
\* Result: the object afterwards, the exception raised (NoExc when it
\* returns), the error it translates and the requests rest_send.commit() was
\* called with.
SwitchesInventoryGetCommit(o, out, switches) ==
    IF o.rest_send = None
    THEN [o |-> o, calls |-> <<>>, orig |-> NoExc,
          exc |-> Exc("ValueError",
                      <<"SwitchesInventoryGet._final_verification: rest_send must be set">>)]
    ELSE IF o.fabric_name = <<>>
    THEN [o |-> o, calls |-> <<>>, orig |-> NoExc,
          exc |-> Exc("ValueError",
                      <<"SwitchesInventoryGet._final_verification: fabric_name must be set">>)]
    ELSE LET ep == EpSwitchesInventoryGetCommit(
                       EpSwitchesInventoryGetSetFabricName(o.endpoint, o.fabric_name))
             o1 == [o EXCEPT !.endpoint = ep.ep]
             t == TrySend(ep.ep, None, out, <<"SwitchesInventoryGet.commit: ">>)
         IN  IF ep.exc # NoExc
             THEN [o |-> o1, calls |-> <<>>, orig |-> NoExc, exc |-> ep.exc]
             ELSE IF t.exc # NoExc
             THEN [o |-> o1, calls |-> t.calls, orig |-> t.orig, exc |-> t.exc]
             ELSE [o |-> [o1 EXCEPT
                            !.inventory_data = switches,
                            !.inventory_by_switch_ipv4_address =
                                build_inventory_by_switch_ipv4_address(switches),
                            !.inventory_by_switch_name =
                                build_inventory_by_switch_name(switches),
                            !.inventory_by_switch_serial_number =
                                build_inventory_by_switch_serial_number(switches),
                            !.committed = TRUE],
                   calls |-> t.calls, orig |-> NoExc, exc |-> NoExc]

\* "if not self._committed: self.commit()" at the head of every accessor
EnsureCommitted(o, out, switches) ==
    IF o.committed THEN [o |-> o, calls |-> <<>>, orig |-> NoExc, exc |-> NoExc]
    ELSE SwitchesInventoryGetCommit(o, out, switches)

\* the body shared by the six cross-reference lookups, after the implicit
\* commit: [exc, ret]
LookupBody(index, key, field, what) ==
    IF key \notin DOMAIN index
        THEN [exc |-> Exc("ValueError", <<what, key, "not found in fabric">>), ret |-> None]
        ELSE LET switch == index[key]
                 value == DictGet(switch, field)
             IN  IF value = None
                 THEN [exc |-> Exc("ValueError", <<what, key, "has no", field>>), ret |-> None]
                 ELSE [exc |-> NoExc, ret |-> value]

switch_name_to_serial_number(o, switch_name) ==
    LookupBody(o.inventory_by_switch_name, switch_name, "serialNumber", "Switch name")

switch_name_to_ipv4_address(o, switch_name) ==
    LookupBody(o.inventory_by_switch_name, switch_name, "fabricManagementIp", "Switch name")

ipv4_address_to_switch_name(o, ipv4_address) ==
    LookupBody(o.inventory_by_switch_ipv4_address, ipv4_address, "hostname", "IPv4 address")

ipv4_address_to_serial_number(o, ipv4_address) ==
    LookupBody(o.inventory_by_switch_ipv4_address, ipv4_address, "serialNumber", "IPv4 address")

\* a slip: the missing field answered with an empty default instead of an error
serial_number_to_ipv4_address_default(o, serial_number) ==
    IF serial_number \notin DOMAIN o.inventory_by_switch_serial_number
    THEN [exc |-> Exc("ValueError", <<"Serial number", serial_number, "not found in fabric">>),
          ret |-> None]
    ELSE [exc |-> NoExc,
          ret |-> DictGetDefault(o.inventory_by_switch_serial_number[serial_number],
                                 "fabricManagementIp", "")]

serial_number_to_ipv4_address(o, serial_number) ==
    LookupBody(o.inventory_by_switch_serial_number, serial_number, "fabricManagementIp",
               "Serial number")

serial_number_to_switch_name(o, serial_number) ==
    LookupBody(o.inventory_by_switch_serial_number, serial_number, "hostname", "Serial number")

\* the six lookups by name
LookupNames ==
    {"switch_name_to_serial_number", "switch_name_to_ipv4_address",
     "ipv4_address_to_switch_name", "ipv4_address_to_serial_number",
     "serial_number_to_ipv4_address", "serial_number_to_switch_name"}

Lookup(op, o, key) ==
    CASE op = "switch_name_to_serial_number" -> switch_name_to_serial_number(o, key)
      [] op = "switch_name_to_ipv4_address" -> switch_name_to_ipv4_address(o, key)
      [] op = "ipv4_address_to_switch_name" -> ipv4_address_to_switch_name(o, key)
      [] op = "ipv4_address_to_serial_number" -> ipv4_address_to_serial_number(o, key)
      [] op = "serial_number_to_ipv4_address" -> serial_number_to_ipv4_address(o, key)
      [] OTHER -> serial_number_to_switch_name(o, key)

\* a slip: the vpcConfigured flags tested before the names are resolved
is_vpc_peer_flags_first(o, switch_name, peer_switch_name) ==
    LET sn == switch_name_to_serial_number(o, switch_name)
        psn == switch_name_to_serial_number(o, peer_switch_name)
        switch == DictGetDefault(o.inventory_by_switch_name, switch_name, EmptyDict)
        peer_switch == DictGetDefault(o.inventory_by_switch_name, peer_switch_name, EmptyDict)
    IN  IF DictGetDefault(switch, "vpcConfigured", FALSE) # TRUE
             THEN [exc |-> NoExc, ret |-> FALSE]
        ELSE IF DictGetDefault(peer_switch, "vpcConfigured", FALSE) # TRUE
             THEN [exc |-> NoExc, ret |-> FALSE]
        ELSE IF sn.exc # NoExc THEN [exc |-> sn.exc, ret |-> None]
        ELSE IF psn.exc # NoExc THEN [exc |-> psn.exc, ret |-> None]
        ELSE IF sn.ret = psn.ret THEN [exc |-> NoExc, ret |-> FALSE]
        ELSE [exc |-> NoExc, ret |-> TRUE]

\* is_vpc_peer after the implicit commit: [exc, ret]
is_vpc_peer(o, switch_name, peer_switch_name) ==
    LET sn == switch_name_to_serial_number(o, switch_name)
        psn == switch_name_to_serial_number(o, peer_switch_name)
        switch == DictGetDefault(o.inventory_by_switch_name, switch_name, EmptyDict)
        peer_switch == DictGetDefault(o.inventory_by_switch_name, peer_switch_name, EmptyDict)
    IN  IF sn.exc # NoExc THEN [exc |-> sn.exc, ret |-> None]
        ELSE IF psn.exc # NoExc THEN [exc |-> psn.exc, ret |-> None]
        ELSE IF DictGetDefault(switch, "vpcConfigured", FALSE) # TRUE
             THEN [exc |-> NoExc, ret |-> FALSE]
        ELSE IF DictGetDefault(peer_switch, "vpcConfigured", FALSE) # TRUE
             THEN [exc |-> NoExc, ret |-> FALSE]
        ELSE IF sn.ret = psn.ret THEN [exc |-> NoExc, ret |-> FALSE]
        ELSE [exc |-> NoExc, ret |-> TRUE]

\* ------------------------------------------------------------------------
\* Endpoint descriptors of endpoints/manage.py
\* ------------------------------------------------------------------------

CREDENTIALS == <<"/credentials">>

EpCredentialsDefaultSwitchDelete ==
    [verb |-> "DELETE", path |-> CREDENTIALS \o <<"/defaultSwitchCredentials">>]

EpCredentialsDetailsGet ==
    [verb |-> "GET", path |-> CREDENTIALS \o <<"/details">>]

EpCredentialsDefaultSwitchGet ==
    [verb |-> "GET", path |-> CREDENTIALS \o <<"/defaultSwitchCredentials">>]

EpCredentialsUserSwitchGet ==
    [verb |-> "GET", path |-> CREDENTIALS \o <<"/switches">>]

EpCredentialsUserSwitchSave ==
    [verb |-> "POST", path |-> CREDENTIALS \o <<"/switches">>]

EpCredentialsUserSwitchDelete ==
    [verb |-> "POST", path |-> CREDENTIALS \o <<"/switches/actions/remove">>]

\* the endpoint FabricDetailGet is constructed with, as its test describes it
EpFabricDetailGet == [verb |-> "GET", path |-> FABRICS]

\* str.strip() on a token sequence whose whitespace tokens are " "
RECURSIVE StripLeft(_)
StripLeft(s) == IF s # <<>> /\ Head(s) = " " THEN StripLeft(Tail(s)) ELSE s

RECURSIVE StripRight(_)
StripRight(s) ==
    IF s # <<>> /\ s[Len(s)] = " " THEN StripRight(SubSeq(s, 1, Len(s) - 1)) ELSE s

\* a slip: the value is validated as given
StripNothing(s) == s

Strip(s) == StripRight(StripLeft(s))

\* EpCredentialsDefaultSwitchSaveValidator / EpCredentialsRobotSwitchSaveValidator:
\* both fields required, non-empty after stripping, no other key
EpCredentialsSaveValid(body) ==
    /\ DOMAIN body = {"switchUsername", "switchPassword"}
    /\ Strip(body["switchUsername"]) # <<>>
    /\ Strip(body["switchPassword"]) # <<>>

EpCredentialsDefaultSwitchSaveInit ==
    [kind |-> "EpCredentialsDefaultSwitchSave", committed |-> FALSE, body |-> EmptyDict, verb |-> "POST",
     path |-> CREDENTIALS \o <<"/defaultSwitchCredentials">>]

EpCredentialsRobotSwitchSaveInit ==
    [kind |-> "EpCredentialsRobotSwitchSave", committed |-> FALSE, body |-> EmptyDict, verb |-> "POST",
     path |-> CREDENTIALS \o <<"/robotSwitchCredentials">>]

\* ep.switch_username = u; ep.switch_password = p
EpCredentialsSaveSet(ep, u, p) ==
    [ep EXCEPT !.body = DictSet(DictSet(@, "switchUsername", u), "switchPassword", p)]

\* ep.switch_username = value
EpCredentialsSaveSetUsername(ep, value) ==
    [ep EXCEPT !.body = DictSet(@, "switchUsername", value)]

\* ep.switch_password = value
EpCredentialsSaveSetPassword(ep, value) ==
    [ep EXCEPT !.body = DictSet(@, "switchPassword", value)]

\* EpCredentialsDefaultSwitchSave.body
EpCredentialsDefaultSwitchSaveBody(ep) ==
    IF ~ep.committed
    THEN [exc |-> Exc("ValueError", <<"Call instance.commit() before accessing instance.body.">>),
          ret |-> None]
    ELSE [exc |-> NoExc, ret |-> ep.body]

\* EpCredentialsRobotSwitchSave.body: isRobot is written into _body, which
\* is the dictionary returned
EpCredentialsRobotSwitchSaveBody(ep) ==
    IF ~ep.committed
    THEN [ep |-> ep,
          exc |-> Exc("ValueError", <<"Call instance.commit() before accessing instance.body.">>),
          ret |-> None]
    ELSE [ep |-> [ep EXCEPT !.body = DictSet(@, "isRobot", <<"True">>)],
          exc |-> NoExc,
          ret |-> DictSet(ep.body, "isRobot", <<"True">>)]

\* a slip: the body is not validated
EpCredentialsSaveCommitUnchecked(ep) ==
    [ep |-> [ep EXCEPT !.committed = TRUE], exc |-> NoExc]

\* EpCredentialsDefaultSwitchSave.commit() and EpCredentialsRobotSwitchSave.commit()
EpCredentialsSaveCommit(ep) ==
    IF EpCredentialsSaveValid(ep.body)
    THEN [ep |-> [ep EXCEPT !.committed = TRUE], exc |-> NoExc]
    ELSE [ep |-> ep, exc |-> Exc("ValueError", <<"Invalid request body: ", "ValidationError">>)]

\* ------------------------------------------------------------------------
\* Business objects
\* ------------------------------------------------------------------------

\* the classes whose response accessors are guarded by _committed
GuardedGetters ==
    {"CredentialsDetailsGet", "CredentialsDefaultSwitchGet", "FabricDetailGet",
     "CredentialsUserSwitchGet"}

UserSwitchKinds == {"CredentialsUserSwitchSave", "CredentialsUserSwitchDelete"}

RestSendValues == {None, "RestSend"}

CredentialsDetailsGetInit ==
    [kind |-> "CredentialsDetailsGet", committed |-> FALSE, rest_send |-> "RestSend",
     endpoint |-> EpCredentialsDetailsGet]

CredentialsDefaultSwitchGetInit ==
    [kind |-> "CredentialsDefaultSwitchGet", committed |-> FALSE, rest_send |-> "RestSend",
     endpoint |-> EpCredentialsDefaultSwitchGet]

FabricDetailGetInit ==
    [kind |-> "FabricDetailGet", committed |-> FALSE, rest_send |-> "RestSend",
     endpoint |-> EpFabricDetailGet]

\* the initial value of CredentialsUserSwitchGet._filtered_data
FilteredDataDefault ==
    [credentialStore |-> "", fabricName |-> "", ip |-> "", switchId |-> "",
     switchName |-> "", switchUsername |-> "", type |-> ""]

\* response holds DATA.items of rest_send.response_current
CredentialsUserSwitchGetInit ==
    [kind |-> "CredentialsUserSwitchGet", committed |-> FALSE, rest_send |-> "RestSend",
     endpoint |-> EpCredentialsUserSwitchGet, data_filtered |-> FALSE, filter |-> "",
     filtered_data |-> FilteredDataDefault, response |-> <<>>]

CredentialsDefaultSwitchDeleteInit ==
    [kind |-> "CredentialsDefaultSwitchDelete", rest_send |-> "RestSend",
     endpoint |-> EpCredentialsDefaultSwitchDelete]

CredentialsDefaultSwitchSaveInit ==
    [kind |-> "CredentialsDefaultSwitchSave", rest_send |-> "RestSend",
     endpoint |-> EpCredentialsDefaultSwitchSaveInit, payload |-> EmptyDict,
     switch_username |-> <<>>, switch_password |-> <<>>]

CredentialsRobotSwitchSaveInit ==
    [kind |-> "CredentialsRobotSwitchSave", committed |-> FALSE, rest_send |-> "RestSend",
     endpoint |-> EpCredentialsRobotSwitchSaveInit, config |-> EmptyDict,
     payload |-> EmptyDict, result |-> <<>>]

CredentialsUserSwitchSaveInit ==
    [kind |-> "CredentialsUserSwitchSave", committed |-> FALSE, rest_send |-> "RestSend",
     endpoint |-> EpCredentialsUserSwitchSave, inventory |-> SwitchesInventoryGetInit,
     config |-> EmptyDict, fabric_inventory |-> EmptyDict, payload |-> EmptyDict,
     result |-> <<>>]

CredentialsUserSwitchDeleteInit ==
    [kind |-> "CredentialsUserSwitchDelete", committed |-> FALSE, rest_send |-> "RestSend",
     endpoint |-> EpCredentialsUserSwitchDelete, inventory |-> SwitchesInventoryGetInit,
     config |-> EmptyDict, fabric_inventory |-> EmptyDict, payload |-> EmptyDict,
     result |-> <<>>]

\* the ValueError of _final_verification / _verify_property
NotSet(cls, property_name) ==
    Exc("ValueError", <<cls, property_name, " must be set before calling commit">>)

\* the result of a commit() that raised before anything was sent
Refused(o, exc) == [o |-> o, calls |-> <<>>, orig |-> NoExc, exc |-> exc]

\* a slip: _committed set before the request is sent
GetterCommitFlagFirst(o, out) ==
    IF o.rest_send = None
    THEN Refused(o, NotSet(o.kind, "rest_send"))
    ELSE LET t == TrySend(o.endpoint, None, out, <<o.kind, ".commit: ">>)
         IN  [o |-> [o EXCEPT !.committed = TRUE],
              calls |-> t.calls, orig |-> t.orig, exc |-> t.exc]

\* commit() of CredentialsDetailsGet, CredentialsDefaultSwitchGet,
\* FabricDetailGet and CredentialsUserSwitchGet
GetterCommit(o, out) ==
    IF o.rest_send = None
    THEN Refused(o, NotSet(o.kind, "rest_send"))
    ELSE LET t == TrySend(o.endpoint, None, out, <<o.kind, ".commit: ">>)
         IN  [o |-> IF t.exc = NoExc THEN [o EXCEPT !.committed = TRUE] ELSE o,
              calls |-> t.calls, orig |-> t.orig, exc |-> t.exc]

\* error_if_not_committed(method_name), and the same test written out in
\* CredentialsDefaultSwitchGet.data
error_if_not_committed(o, method_name) ==
    IF ~o.committed
    THEN Exc("ValueError", <<o.kind, ".commit() must be called before accessing ", method_name>>)
    ELSE NoExc

\* CredentialsUserSwitchGet.commit() when the controller answers with items
CredentialsUserSwitchGetCommitWith(o, out, items) ==
    LET c == GetterCommit(o, out)
    IN  IF c.exc = NoExc THEN [c EXCEPT !.o.response = items] ELSE c

\* CredentialsUserSwitchGet.filter = value
CredentialsUserSwitchGetSetFilter(o, value) ==
    IF value = None
    THEN [o |-> o, exc |-> Exc("ValueError", <<o.kind, ".filter: filter must be a string. ">>)]
    ELSE [o |-> [o EXCEPT !.filter = value], exc |-> NoExc]

\* isinstance(item, dict)
IsDict(item) == "not_a_dict" \notin DOMAIN item

\* the loop of set_filtered_data: the last item whose switchName is the
\* filter replaces _filtered_data
RECURSIVE FilterLoop(_, _, _)
FilterLoop(filtered, data, filter) ==
    IF data = <<>> THEN filtered
    ELSE LET item == Head(data)
         IN  FilterLoop(IF IsDict(item) /\ DictGetDefault(item, "switchName", "") = filter
                        THEN item ELSE filtered,
                        Tail(data), filter)

\* CredentialsUserSwitchGet.set_filtered_data()
set_filtered_data(o) ==
    IF error_if_not_committed(o, "set_filtered_data") # NoExc
    THEN [o |-> o, exc |-> error_if_not_committed(o, "set_filtered_data")]
    ELSE IF o.filter = "" THEN [o |-> o, exc |-> NoExc]
    ELSE IF o.rest_send = None
    THEN [o |-> [o EXCEPT !.data_filtered = TRUE],
          exc |-> Exc("AttributeError", <<"response_current">>)]
    ELSE [o |-> [o EXCEPT !.data_filtered = TRUE,
                          !.filtered_data = FilterLoop(@, o.response, o.filter)],
          exc |-> NoExc]

\* the accessors credential_store, credential_type, fabric_name, ip,
\* switch_id, switch_name, switch_username: self._filtered_data.get(key, "")
FilteredAccessor(o, key) == DictGetDefault(o.filtered_data, key, "")

\* CredentialsDefaultSwitchDelete.commit()
CredentialsDefaultSwitchDeleteCommit(o, out) ==
    IF o.rest_send = None
    THEN Refused(o, NotSet(o.kind, "rest_send"))
    ELSE LET t == TrySend(o.endpoint, None, out, <<o.kind, ".commit: ">>)
         IN  [o |-> o, calls |-> t.calls, orig |-> t.orig, exc |-> t.exc]

\* CredentialsDefaultSwitchSave.commit()
CredentialsDefaultSwitchSaveCommit(o, out) ==
    IF o.rest_send = None THEN Refused(o, NotSet(o.kind, "rest_send"))
    ELSE IF o.switch_username = <<>> THEN Refused(o, NotSet(o.kind, "switch_username"))
    ELSE IF o.switch_password = <<>> THEN Refused(o, NotSet(o.kind, "switch_password"))
    ELSE LET e == EpCredentialsSaveCommit(
                      EpCredentialsSaveSet(o.endpoint, o.switch_username, o.switch_password))
             o1 == [o EXCEPT !.endpoint = e.ep]
             o2 == [o1 EXCEPT !.payload =
                        DictSet(DictSet(@, "switchUsername",
                                        DictGetDefault(e.ep.body, "switchUsername", <<>>)),
                                "switchPassword",
                                DictGetDefault(e.ep.body, "switchPassword", <<>>))]
             t == TrySend(o2.endpoint, o2.payload, out, <<o.kind, ".commit: ">>)
         IN  IF e.exc # NoExc
             THEN Refused(o1, Exc("ValueError",
                                  <<o.kind, ".commit: Unable to validate endpoint. ">>
                                  \o e.exc.msg))
             ELSE [o |-> o2, calls |-> t.calls, orig |-> t.orig, exc |-> t.exc]

\* CredentialsRobotSwitchSave.commit()
CredentialsRobotSwitchSaveCommit(o, out) ==
    IF DOMAIN o.config = {} THEN Refused(o, NotSet(o.kind, "config"))
    ELSE IF o.rest_send = None THEN Refused(o, NotSet(o.kind, "rest_send"))
    ELSE LET e == EpCredentialsSaveCommit(
                      EpCredentialsSaveSet(o.endpoint, o.config.switch_username,
                                           o.config.switch_password))
             o1 == [o EXCEPT !.endpoint = e.ep]
             o2 == [o1 EXCEPT !.payload =
                        DictSet(DictSet(DictSet(@, "switchUsername", o.config.switch_username),
                                        "switchPassword", o.config.switch_password),
                                "isRobot", <<"True">>)]
             t == TrySend(o2.endpoint, o2.payload, out, <<o.kind, ".commit: ">>)
         IN  IF e.exc # NoExc
             THEN Refused(o1, Exc("ValueError",
                                  <<o.kind, ".commit: Unable to validate endpoint. ">>
                                  \o e.exc.msg))
             ELSE IF t.exc # NoExc
             THEN [o |-> o2, calls |-> t.calls, orig |-> t.orig, exc |-> t.exc]
             ELSE [o |-> [o2 EXCEPT !.committed = TRUE,
                                    !.result = Append(@, <<"saved", o.config.switch_username>>)],
                   calls |-> t.calls, orig |-> NoExc, exc |-> NoExc]

\* a slip: the inventory is fetched for every item, cached or not
populate_fabric_inventory_uncached(o, fabric_name, r) ==
    LET c == SwitchesInventoryGetCommit(
                 [o.inventory EXCEPT !.fabric_name = fabric_name,
                                     !.rest_send = o.rest_send],
                 r[1], r[2])
    IN  IF c.exc # NoExc
        THEN [o |-> [o EXCEPT !.inventory = c.o], calls |-> c.calls, orig |-> c.orig,
              exc |-> Exc("ValueError",
                          <<o.kind, ".populate_fabric_inventory: Error details: ">>
                          \o c.exc.msg)]
        ELSE [o |-> [o EXCEPT !.inventory = c.o,
                              !.fabric_inventory =
                                  DictSet(@, fabric_name, c.o.inventory_by_switch_name)],
              calls |-> c.calls, orig |-> NoExc, exc |-> NoExc]

\* populate_fabric_inventory(fabric_name) of CredentialsUserSwitchSave and
\* CredentialsUserSwitchDelete; r is what the inventory request meets
populate_fabric_inventory(o, fabric_name, r) ==
    IF fabric_name \in DOMAIN o.fabric_inventory
    THEN Refused(o, NoExc)
    ELSE LET c == SwitchesInventoryGetCommit(
                      [o.inventory EXCEPT !.fabric_name = fabric_name,
                                          !.rest_send = o.rest_send],
                      r[1], r[2])
         IN  IF c.exc # NoExc
             THEN [o |-> [o EXCEPT !.inventory = c.o], calls |-> c.calls, orig |-> c.orig,
                   exc |-> Exc("ValueError",
                               <<o.kind, ".populate_fabric_inventory: Error details: ">>
                               \o c.exc.msg)]
             ELSE [o |-> [o EXCEPT !.inventory = c.o,
                                   !.fabric_inventory =
                                       DictSet(@, fabric_name, c.o.inventory_by_switch_name)],
                   calls |-> c.calls, orig |-> NoExc, exc |-> NoExc]

\* a slip: the record's host name is taken for its serial number
SerialOfHostname(o, item) ==
    DictGetDefault(
        DictGetDefault(DictGetDefault(o.fabric_inventory, item.fabric_name, EmptyDict),
                       item.switch_name, EmptyDict),
        "hostname", "")

\* self._fabric_inventory.get(fabric, {}).get(switch, {}).get("serialNumber", "")
SerialOf(o, item) ==
    DictGetDefault(
        DictGetDefault(DictGetDefault(o.fabric_inventory, item.fabric_name, EmptyDict),
                       item.switch_name, EmptyDict),
        "serialNumber", "")

\* The loop of build_payload over the configured items.  ctl maps a fabric
\* name to what its inventory request meets; as_dict tells whether a switchIds
\* element is {"switchId": serial} (save) or the serial itself (delete).  Result: the object, the switchIds so far, the
\* requests made, the exception.
RECURSIVE BuildPayloadLoop(_, _, _, _, _, _)
BuildPayloadLoop(o, items, ctl, ids, calls, as_dict) ==
    IF items = <<>>
    THEN [o |-> o, ids |-> ids, calls |-> calls, orig |-> NoExc, exc |-> NoExc]
    ELSE LET item == Head(items)
             p == populate_fabric_inventory(o, item.fabric_name, ctl[item.fabric_name])
             serial_number == SerialOf(p.o, item)
         IN  IF p.exc # NoExc
             THEN [o |-> p.o, ids |-> ids, calls |-> calls \o p.calls, orig |-> p.orig,
                   exc |-> p.exc]
             ELSE IF serial_number = ""
             THEN [o |-> p.o, ids |-> ids, calls |-> calls \o p.calls, orig |-> NoExc,
                   exc |-> Exc("ValueError",
                               <<"switch_name ", item.switch_name, " not found in fabric">>
                               \o item.fabric_name)]
             ELSE BuildPayloadLoop(
                      [p.o EXCEPT !.result =
                          Append(@, <<item.fabric_name, item.switch_name, serial_number>>)],
                      Tail(items), ctl,
                      Append(ids, IF as_dict THEN [switchId |-> serial_number]
                                             ELSE serial_number),
                      calls \o p.calls, as_dict)

NoSwitches == Exc("ValueError", <<"No valid switches found">>)

\* CredentialsUserSwitchDelete.build_payload()
CredentialsUserSwitchDeleteBuildPayload(o, ctl) ==
    LET b == BuildPayloadLoop([o EXCEPT !.payload = EmptyDict], o.config, ctl, <<>>, <<>>,
                              FALSE)
    IN  IF b.exc # NoExc THEN b
        ELSE IF Len(b.ids) = 0 THEN [b EXCEPT !.exc = NoSwitches]
        ELSE [b EXCEPT !.o.payload = [switchIds |-> b.ids]]

\* CredentialsUserSwitchSave.build_payload()
CredentialsUserSwitchSaveBuildPayload(o, ctl) ==
    LET o0 == [o EXCEPT !.result = <<"header">>]
        b == BuildPayloadLoop(o0, o.config.switches, ctl, <<>>, <<>>, TRUE)
    IN  IF "switches" \notin DOMAIN o.config
        THEN Refused(o0, Exc("AttributeError", <<"switches">>))
        ELSE IF b.exc # NoExc THEN b
        ELSE IF Len(b.ids) = 0 THEN [b EXCEPT !.exc = NoSwitches]
        ELSE [b EXCEPT !.o.payload =
                  DictSet(DictSet(DictSet(@, "switchIds", b.ids),
                                  "switchUsername", o.config.switch_username),
                          "switchPassword", o.config.switch_password)]

\* a slip: the request is sent with whatever build_payload() got together
SendBuiltPayloadAnyway(b, out) ==
    LET t == TrySend(b.o.endpoint, b.o.payload, out, <<b.o.kind, ".commit: ">>)
    IN  [o |-> IF t.exc = NoExc THEN [b.o EXCEPT !.committed = TRUE] ELSE b.o,
         calls |-> b.calls \o t.calls, orig |-> t.orig,
         exc |-> IF b.exc # NoExc THEN b.exc ELSE t.exc]

\* what follows build_payload() in both commit() methods
SendBuiltPayload(b, out) ==
    IF b.exc # NoExc
    THEN [o |-> b.o, calls |-> b.calls, orig |-> b.orig, exc |-> b.exc]
    ELSE LET t == TrySend(b.o.endpoint, b.o.payload, out, <<b.o.kind, ".commit: ">>)
         IN  [o |-> IF t.exc = NoExc THEN [b.o EXCEPT !.committed = TRUE] ELSE b.o,
              calls |-> b.calls \o t.calls, orig |-> t.orig, exc |-> t.exc]

\* CredentialsUserSwitchDelete.commit()
CredentialsUserSwitchDeleteCommit(o, ctl, out) ==
    IF DOMAIN o.config = {} THEN Refused(o, NotSet(o.kind, "config"))
    ELSE IF o.rest_send = None THEN Refused(o, NotSet(o.kind, "rest_send"))
    ELSE SendBuiltPayload(CredentialsUserSwitchDeleteBuildPayload(o, ctl), out)

\* CredentialsUserSwitchSave.commit()
CredentialsUserSwitchSaveCommit(o, ctl, out) ==
    IF DOMAIN o.config = {} THEN Refused(o, NotSet(o.kind, "config"))
    ELSE IF o.rest_send = None THEN Refused(o, NotSet(o.kind, "rest_send"))
    ELSE SendBuiltPayload(CredentialsUserSwitchSaveBuildPayload(o, ctl), out)

\* ------------------------------------------------------------------------
\* The file-based Sender of common/sender_file.py
\* ------------------------------------------------------------------------

MaxResponses == 2

\* a ResponseGenerator over a generator function that yields `responses`;
\* pos counts the responses it has produced
ResponseGenerator(responses) == [set |-> TRUE, responses |-> responses, pos |-> 0]

\* Sender._gen = None
NoGen == [set |-> FALSE, responses |-> <<>>, pos |-> 0]

\* ResponseGenerator.next: next(self._gen)
GeneratorNext(gen) ==
    IF gen.pos = Len(gen.responses)
    THEN [gen |-> gen, exc |-> Exc("StopIteration", <<>>), ret |-> None]
    ELSE [gen |-> [gen EXCEPT !.pos = @ + 1], exc |-> NoExc, ret |-> gen.responses[gen.pos + 1]]

SenderInit ==
    [gen |-> NoGen, path |-> "", payload |-> None, verb |-> "",
     raise_method |-> "unknown", raise_message |-> "Simulated exception for testing",
     raise_exception |-> None]

\* Sender._verify_commit_parameters()
verify_commit_parameters(s) ==
    IF ~s.gen.set
    THEN Exc("ValueError", <<"Sender._verify_commit_parameters: gen must be set before calling commit().">>)
    ELSE NoExc

\* Sender._check_and_raise(method_name)
check_and_raise(s, method_name) ==
    IF s.raise_method = method_name /\ s.raise_exception # None
    THEN Exc(s.raise_exception, <<s.raise_message>>)
    ELSE NoExc

\* a slip: the parameters are verified before the simulated exception
SenderCommitVerifyFirst(s) ==
    IF verify_commit_parameters(s) # NoExc
    THEN [s |-> s,
          exc |-> Exc("ValueError",
                      <<"Sender.commit: Not all mandatory parameters are set. Error detail: ">>
                      \o verify_commit_parameters(s).msg)]
    ELSE [s |-> s, exc |-> check_and_raise(s, "commit")]

\* Sender.commit()
SenderCommit(s) ==
    IF check_and_raise(s, "commit") # NoExc
    THEN [s |-> s, exc |-> check_and_raise(s, "commit")]
    ELSE IF verify_commit_parameters(s) # NoExc
    THEN [s |-> s,
          exc |-> Exc("ValueError",
                      <<"Sender.commit: Not all mandatory parameters are set. Error detail: ">>
                      \o verify_commit_parameters(s).msg)]
    ELSE [s |-> s, exc |-> NoExc]

\* a slip: the response is read without moving the generator on
SenderResponseRepeat(s) ==
    IF verify_commit_parameters(s) # NoExc
    THEN [s |-> s, exc |-> verify_commit_parameters(s), ret |-> None]
    ELSE [s |-> s, exc |-> GeneratorNext(s.gen).exc, ret |-> GeneratorNext(s.gen).ret]

\* Sender.response
SenderResponse(s) ==
    IF verify_commit_parameters(s) # NoExc
    THEN [s |-> s, exc |-> verify_commit_parameters(s), ret |-> None]
    ELSE [s |-> [s EXCEPT !.gen = GeneratorNext(s.gen).gen],
          exc |-> GeneratorNext(s.gen).exc, ret |-> GeneratorNext(s.gen).ret]

\* Sender.gen = value; value is a generator, or something that does not
\* implement the response_generator interface
SenderSetGen(s, value) ==
    IF "set" \notin DOMAIN value
    THEN [s |-> s, exc |-> Exc("TypeError", <<"Sender.gen: Expected a class implementing the response_generator interface.">>)]
    ELSE [s |-> [s EXCEPT !.gen = value], exc |-> NoExc]

\* ------------------------------------------------------------------------
\* State
\* ------------------------------------------------------------------------

VARIABLES
    inv,    \* a SwitchesInventoryGet instance
    ires,   \* the last call made on inv: operation, arguments, exception, result
    ep,     \* an endpoint descriptor (EpFabricsGet or EpSwitchesInventoryGet)
    eph,    \* what happened to ep: commits made, path after the first commit,
            \* whether a parameter changed since, the exception of the last call
    bo,     \* a business object of one of the classes under credentials/,
            \* fabric/ and switches/
    bres,   \* the last call made on bo: operation, exception raised, the error
            \* rest_send raised, the rest_send.commit() calls it made, and what
            \* bo was before the call
    snd,    \* a file-based Sender
    sres,   \* the last call made on snd: operation, exception, value returned,
            \* the sender before the call, the responses read and whether
            \* commit() has returned since gen was assigned
    ex      \* the last run of an example script's action(cfg): the script, cfg,
            \* how rest_send behaved, what was printed and the requests sent

vars == <<inv, ires, ep, eph, bo, bres, snd, sres, ex>>

\* keys a caller may pass to a lookup: the values the controller uses for
\* the lookup's key field, and one it never uses
LookupKeys(op) ==
    {"zz"} \cup
    (CASE op \in {"switch_name_to_serial_number", "switch_name_to_ipv4_address"} -> Hostnames
       [] op \in {"ipv4_address_to_switch_name", "ipv4_address_to_serial_number"} -> Ipv4Addresses
       [] OTHER -> SerialNumbers)

IRes(op, key, peer, r) ==
    [op |-> op, key |-> key, peer |-> peer, exc |-> r.exc, ret |-> r.ret,
     switches |-> <<>>]

\* ------------------------------------------------------------------------
\* Inventory: actions
\* ------------------------------------------------------------------------

EpStart ==
    /\ ep = EpFabricsGetInit
    /\ eph = [commits |-> 0, first_path |-> <<>>, changed |-> FALSE, exc |-> NoExc, op |-> "",
             last_fabric |-> <<>>]

InvStart ==
    /\ inv = SwitchesInventoryGetInit
    /\ ires = IRes("init", None, None, [exc |-> NoExc, ret |-> None])

\* the record of a call on a business object
BRes(op, c, before, ever_ok, commits) ==
    [op |-> op, exc |-> c.exc, orig |-> c.orig, calls |-> c.calls,
     was_committed |-> IF "committed" \in DOMAIN before THEN before.committed ELSE FALSE,
     cached_before |-> IF "fabric_inventory" \in DOMAIN before
                       THEN DOMAIN before.fabric_inventory ELSE {},
     ever_ok |-> ever_ok, commits |-> commits]

BoStart ==
    /\ bo = CredentialsDetailsGetInit
    /\ bres = BRes("init", Refused(bo, NoExc), bo, FALSE, 0)

\* the record of a call on the sender
SRes(op, exc, ret, before, reads, commit_seen) ==
    [op |-> op, exc |-> exc, ret |-> ret, before |-> before, reads |-> reads,
     commit_seen |-> commit_seen]

\* the record of a run of action(cfg)
ExRes(script, cfg, out, inventory_ok, printed, calls, data, section) ==
    [script |-> script, cfg |-> cfg, out |-> out, inventory_ok |-> inventory_ok,
     printed |-> printed, calls |-> calls, data |-> data, section |-> section]

ExStart == ex = ExRes("", EmptyDict, TryOk, TRUE, "", <<>>, <<>>, EmptyDict)

SndStart ==
    /\ snd = SenderInit
    /\ sres = SRes("init", NoExc, None, SenderInit, 0, FALSE)

InvInit ==
    /\ ExStart
    /\ InvStart
    /\ EpStart
    /\ BoStart
    /\ SndStart

\* instance.fabric_name = value
InvSetFabricName ==
    /\ UNCHANGED <<ep, eph, bo, bres, snd, sres, ex>>
    /\ \E value \in FabricNames :
           /\ inv' = [inv EXCEPT !.fabric_name = value]
           /\ ires' = IRes("fabric_name", None, None, [exc |-> NoExc, ret |-> None])

\* what the try block of SwitchesInventoryGet.commit() can meet: an error, or
\* a response carrying one of the switch lists
InventoryResponses(lists) ==
    (TryErrors(GetStages) \X {<<>>}) \cup ({TryOk} \X lists)

\* instance.commit()
InvCommit ==
    /\ UNCHANGED <<ep, eph, bo, bres, snd, sres, ex>>
    /\ \E resp \in InventoryResponses(SwitchLists) :
         \E c \in {SwitchesInventoryGetCommit(inv, resp[1], resp[2])} :
               /\ inv' = c.o
               /\ ires' = [IRes("commit", None, None, [exc |-> c.exc, ret |-> None])
                             EXCEPT !.switches = IF c.exc = NoExc THEN resp[2] ELSE <<>>]

\* the responses rest_send.commit() can produce for the implicit commit of an
\* accessor: none is needed when the instance is committed or has no
\* fabric_name (rest_send is not reached)
ImplicitResponses(o) ==
    IF o.committed \/ o.fabric_name = <<>>
    THEN {<<TryOk, <<>> >>}
    ELSE InventoryResponses(SwitchLists)

\* a call of the cross-reference lookup op
InvLookup(op) ==
    /\ UNCHANGED <<ep, eph, bo, bres, snd, sres, ex>>
    /\ \E resp \in ImplicitResponses(inv) :
         \E key \in LookupKeys(op) :
         \E c \in {EnsureCommitted(inv, resp[1], resp[2])} :
           LET r == IF c.exc # NoExc THEN [exc |-> c.exc, ret |-> None]
                    ELSE Lookup(op, c.o, key)
           IN  /\ inv' = c.o
               /\ ires' = IRes(op, key, None, r)

\* instance.is_vpc_peer(switch_name, peer_switch_name)
InvIsVpcPeer ==
    /\ UNCHANGED <<ep, eph, bo, bres, snd, sres, ex>>
    /\ \E a \in Hostnames \cup {"zz"}, b \in Hostnames \cup {"zz"},
          resp \in ImplicitResponses(inv) :
         \E c \in {EnsureCommitted(inv, resp[1], resp[2])} :
           LET r == IF c.exc # NoExc THEN [exc |-> c.exc, ret |-> None]
                    ELSE is_vpc_peer(c.o, a, b)
           IN  /\ inv' = c.o
               /\ ires' = IRes("is_vpc_peer", a, b, r)

InvSwitchNameToSerialNumber == InvLookup("switch_name_to_serial_number")

InvSwitchNameToIpv4Address == InvLookup("switch_name_to_ipv4_address")

InvIpv4AddressToSwitchName == InvLookup("ipv4_address_to_switch_name")

InvIpv4AddressToSerialNumber == InvLookup("ipv4_address_to_serial_number")

InvSerialNumberToIpv4Address == InvLookup("serial_number_to_ipv4_address")

InvSerialNumberToSwitchName == InvLookup("serial_number_to_switch_name")

InvNext ==
    \/ InvSetFabricName
    \/ InvCommit
    \/ InvSwitchNameToSerialNumber
    \/ InvSwitchNameToIpv4Address
    \/ InvIpv4AddressToSwitchName
    \/ InvIpv4AddressToSerialNumber
    \/ InvSerialNumberToIpv4Address
    \/ InvSerialNumberToSwitchName
    \/ InvIsVpcPeer

SpecInv == InvInit /\ [][InvNext]_vars

\* ------------------------------------------------------------------------
\* Inventory: properties
\* ------------------------------------------------------------------------

\* the field values of the switches of a list
FieldValues(data, field) ==
    { DictGet(data[i], field) : i \in 1..Len(data) } \ {None}

\* the position of the last switch of the list whose field equals k
LastWith(data, field, k) ==
    CHOOSE i \in 1..Len(data) :
        /\ DictGet(data[i], field) = k
        /\ \A j \in (i + 1)..Len(data) : DictGet(data[j], field) # k

\* index is the lookup dictionary of the list for the field
IsIndexOf(index, data, field) ==
    /\ DOMAIN index = FieldValues(data, field)
    /\ \A k \in DOMAIN index : index[k] = data[LastWith(data, field, k)]

\* C4: after every successful SwitchesInventoryGet.commit() the three lookup
\* dictionaries are exactly the indices of the switch list of the latest
\* response: the key set is the set of non-null values of the field, each key
\* maps to the last switch in list order carrying it, switches without the
\* field appear under no key and nothing of an earlier commit survives.
C4_IndicesOfLatestResponse ==
    /\ (ires.op = "commit" /\ ires.exc = NoExc) =>
            /\ inv.committed
            /\ inv.inventory_data = ires.switches
    /\ inv.committed =>
            /\ IsIndexOf(inv.inventory_by_switch_name, inv.inventory_data, "hostname")
            /\ IsIndexOf(inv.inventory_by_switch_ipv4_address, inv.inventory_data,
                         "fabricManagementIp")
            /\ IsIndexOf(inv.inventory_by_switch_serial_number, inv.inventory_data,
                         "serialNumber")

\* a second successful commit whose list repeats a hostname and lacks one
C4_Witness ==
    /\ ires.op = "commit" /\ ires.exc = NoExc
    /\ Len(ires.switches) = 2
    /\ DictGet(ires.switches[1], "hostname") = "n1"
    /\ DictGet(ires.switches[2], "hostname") = "n1"
    /\ ires.switches[1] # ires.switches[2]
    /\ "serialNumber" \notin DOMAIN ires.switches[2]
    /\ inv.inventory_by_switch_name["n1"] = ires.switches[2]

\* the index and the requested field of each lookup
LookupIndex(op) ==
    CASE op \in {"switch_name_to_serial_number", "switch_name_to_ipv4_address"} ->
            inv.inventory_by_switch_name
      [] op \in {"ipv4_address_to_switch_name", "ipv4_address_to_serial_number"} ->
            inv.inventory_by_switch_ipv4_address
      [] OTHER -> inv.inventory_by_switch_serial_number

LookupField(op) ==
    CASE op \in {"switch_name_to_serial_number", "ipv4_address_to_serial_number"} ->
            "serialNumber"
      [] op \in {"switch_name_to_ipv4_address", "serial_number_to_ipv4_address"} ->
            "fabricManagementIp"
      [] OTHER -> "hostname"

\* C5: each of the six cross-reference lookups raises ValueError when the key
\* is absent from its index or the indexed record lacks the requested field,
\* and otherwise returns that field of the indexed record; it never returns
\* None or an empty default.
C5_LookupRaisesOrReturnsField ==
    ires.op \in LookupNames =>
        LET index == LookupIndex(ires.op)
            field == LookupField(ires.op)
        IN  IF ires.key \notin DOMAIN index \/ field \notin DOMAIN index[ires.key]
            THEN ires.exc.type = "ValueError"
            ELSE /\ ires.exc = NoExc
                 /\ ires.ret = index[ires.key][field]
                 /\ ires.ret \notin {None, ""}

\* a lookup that raised because the indexed record lacks the field
C5_Witness ==
    /\ ires.op = "serial_number_to_ipv4_address"
    /\ ires.key \in DOMAIN inv.inventory_by_switch_serial_number
    /\ "fabricManagementIp" \notin DOMAIN inv.inventory_by_switch_serial_number[ires.key]
    /\ ires.exc.type = "ValueError"

\* every switch has the three key fields and no two switches share a value
CleanInventory(data) ==
    /\ \A i \in 1..Len(data) :
          {"hostname", "fabricManagementIp", "serialNumber"} \subseteq DOMAIN data[i]
    /\ \A i, j \in 1..Len(data) : i # j =>
          \A f \in {"hostname", "fabricManagementIp", "serialNumber"} :
              data[i][f] # data[j][f]

\* C6: on a committed inventory in which every switch has hostname,
\* fabricManagementIp and serialNumber and no value is shared, the lookups are
\* mutually inverse: name -> serial -> name, name -> address -> name for every
\* device, and serial -> address -> serial for every indexed serial number.
C6_LookupsMutuallyInverse ==
    (inv.committed /\ CleanInventory(inv.inventory_data)) =>
        /\ \A n \in DOMAIN inv.inventory_by_switch_name :
              /\ switch_name_to_serial_number(inv, n).exc = NoExc
              /\ serial_number_to_switch_name(
                     inv, switch_name_to_serial_number(inv, n).ret)
                   = [exc |-> NoExc, ret |-> n]
              /\ switch_name_to_ipv4_address(inv, n).exc = NoExc
              /\ ipv4_address_to_switch_name(
                     inv, switch_name_to_ipv4_address(inv, n).ret)
                   = [exc |-> NoExc, ret |-> n]
        /\ \A s \in DOMAIN inv.inventory_by_switch_serial_number :
              /\ serial_number_to_ipv4_address(inv, s).exc = NoExc
              /\ ipv4_address_to_serial_number(
                     inv, serial_number_to_ipv4_address(inv, s).ret)
                   = [exc |-> NoExc, ret |-> s]

\* a clean inventory of two switches on which a lookup has just returned
C6_Witness ==
    /\ inv.committed
    /\ CleanInventory(inv.inventory_data)
    /\ Len(inv.inventory_data) = 2
    /\ ires.op = "serial_number_to_switch_name"
    /\ ires.exc = NoExc
    /\ ires.ret = "n2"

\* C7: is_vpc_peer raises ValueError if either switch name is not in the
\* hostname index, whatever the other switch's vpcConfigured value and
\* whatever the argument order.
C7_VpcPeerRaisesOnUnknownName ==
    (/\ ires.op = "is_vpc_peer"
     /\ \/ ires.key \notin DOMAIN inv.inventory_by_switch_name
        \/ ires.peer \notin DOMAIN inv.inventory_by_switch_name)
    => ires.exc.type = "ValueError"

\* the first switch is known and not vPC configured, the peer is unknown
C7_Witness ==
    /\ ires.op = "is_vpc_peer"
    /\ inv.committed
    /\ ires.key \in DOMAIN inv.inventory_by_switch_name
    /\ inv.inventory_by_switch_name[ires.key]["vpcConfigured"] = FALSE
    /\ ires.peer \notin DOMAIN inv.inventory_by_switch_name
    /\ ires.exc.type = "ValueError"

\* C8: for two switch names that are both in the inventory, is_vpc_peer
\* returns a boolean, True exactly when both records have vpcConfigured True
\* and their serial numbers differ.
C8_VpcPeerReturnsBoolean ==
    (/\ ires.op = "is_vpc_peer"
     /\ ires.key \in DOMAIN inv.inventory_by_switch_name
     /\ ires.peer \in DOMAIN inv.inventory_by_switch_name)
    => LET a == inv.inventory_by_switch_name[ires.key]
           b == inv.inventory_by_switch_name[ires.peer]
       IN  /\ ires.exc = NoExc
           /\ ires.ret \in BOOLEAN
           /\ ires.ret = (/\ DictGetDefault(a, "vpcConfigured", FALSE) = TRUE
                          /\ DictGetDefault(b, "vpcConfigured", FALSE) = TRUE
                          /\ DictGet(a, "serialNumber") # DictGet(b, "serialNumber"))

\* ------------------------------------------------------------------------
\* Endpoint descriptors: actions
\* ------------------------------------------------------------------------

FilterValues == {<<>>, <<"name:fabric1">>}
SortValues == {<<>>, <<"name">>}
CountValues == {0, 5}

\* a freshly constructed endpoint of either class
EpInit ==
    /\ ExStart
    /\ InvStart
    /\ BoStart
    /\ SndStart
    /\ ep \in {EpFabricsGetInit, EpSwitchesInventoryGetInit, EpCredentialsDefaultSwitchSaveInit,
               EpCredentialsRobotSwitchSaveInit}
    /\ eph = [commits |-> 0, first_path |-> <<>>, changed |-> FALSE, exc |-> NoExc, op |-> "",
             last_fabric |-> <<>>]

\* ep.query_string.<name> = value on an EpFabricsGet
EpSetQueryParameter(name, values) ==
    /\ UNCHANGED <<inv, ires, bo, bres, snd, sres, ex>>
    /\ ep.kind = "EpFabricsGet"
    /\ \E value \in values :
          LET q == QueryFilterGenericSet(ep.query_string, name, value)
          IN  /\ ep' = [ep EXCEPT !.query_string = q]
              /\ eph' = [eph EXCEPT !.exc = NoExc,
                                    !.changed = @ \/ (eph.commits > 0 /\ q # ep.query_string)]

EpSetFilter == EpSetQueryParameter("filter", FilterValues)

EpSetLimit == EpSetQueryParameter("limit", CountValues)

EpSetMax == EpSetQueryParameter("max", CountValues)

EpSetOffset == EpSetQueryParameter("offset", CountValues)

EpSetSort == EpSetQueryParameter("sort", SortValues)

\* ep.commit() on an EpFabricsGet
EpFabricsCommit ==
    /\ UNCHANGED <<inv, ires, bo, bres, snd, sres, ex>>
    /\ ep.kind = "EpFabricsGet"
    /\ eph.commits < MaxEpCommits
    /\ ep' = EpFabricsGetCommit(ep)
    /\ eph' = [eph EXCEPT !.exc = NoExc,
                          !.commits = @ + 1,
                          !.first_path = IF eph.commits = 0 THEN ep'.path ELSE @]

\* ep.fabric_name = value on an EpSwitchesInventoryGet
EpSetFabricName ==
    /\ UNCHANGED <<inv, ires, bo, bres, snd, sres, ex>>
    /\ ep.kind = "EpSwitchesInventoryGet"
    /\ \E value \in {<<>>, <<"f1">>, <<"f2">>} :
          /\ ep' = EpSwitchesInventoryGetSetFabricName(ep, value)
          /\ eph' = [eph EXCEPT !.exc = NoExc, !.op = "fabric_name",
                                !.changed = @ \/ (eph.commits > 0 /\ ep' # ep)]

\* ep.commit() on an EpSwitchesInventoryGet; eph.commits counts the calls
\* that returned and eph.last_fabric is the fabric_name of the last of them
EpSwitchesCommit ==
    /\ UNCHANGED <<inv, ires, bo, bres, snd, sres, ex>>
    /\ ep.kind = "EpSwitchesInventoryGet"
    /\ eph.commits < MaxEpCommits
    /\ \E c \in {EpSwitchesInventoryGetCommit(ep)} :
          /\ ep' = c.ep
          /\ eph' = [eph EXCEPT !.exc = c.exc, !.op = "commit",
                                !.last_fabric = IF c.exc = NoExc THEN ep.fabric_name ELSE @,
                                !.commits = IF c.exc = NoExc THEN @ + 1 ELSE @,
                                !.first_path = IF eph.commits = 0 /\ c.exc = NoExc
                                               THEN c.ep.path ELSE @]

\* the endpoints that carry a body of credentials
SaveEndpointKinds == {"EpCredentialsDefaultSwitchSave", "EpCredentialsRobotSwitchSave"}

\* values assigned to switch_username / switch_password of an endpoint
EpCredentialValues == {<<>>, <<" ">>, <<"admin">>, <<" ", "admin", " ">>}

\* ep.switch_username = value on a save endpoint
EpSetSwitchUsername ==
    /\ UNCHANGED <<inv, ires, bo, bres, snd, sres, ex>>
    /\ ep.kind \in SaveEndpointKinds
    /\ \E value \in EpCredentialValues :
          /\ ep' = EpCredentialsSaveSetUsername(ep, value)
          /\ eph' = [eph EXCEPT !.exc = NoExc, !.op = "switch_username"]

\* ep.switch_password = value on a save endpoint
EpSetSwitchPassword ==
    /\ UNCHANGED <<inv, ires, bo, bres, snd, sres, ex>>
    /\ ep.kind \in SaveEndpointKinds
    /\ \E value \in EpCredentialValues :
          /\ ep' = EpCredentialsSaveSetPassword(ep, value)
          /\ eph' = [eph EXCEPT !.exc = NoExc, !.op = "switch_password"]

\* ep.commit() on a save endpoint; eph.commits counts the calls that
\* returned
EpSaveCommit ==
    /\ UNCHANGED <<inv, ires, bo, bres, snd, sres, ex>>
    /\ ep.kind \in SaveEndpointKinds
    /\ eph.commits < MaxEpCommits
    /\ \E c \in {EpCredentialsSaveCommit(ep)} :
          /\ ep' = c.ep
          /\ eph' = [eph EXCEPT !.exc = c.exc, !.op = "commit",
                                !.commits = IF c.exc = NoExc THEN @ + 1 ELSE @]

\* a read of ep.body on an EpCredentialsDefaultSwitchSave
EpReadBody ==
    /\ UNCHANGED <<inv, ires, bo, bres, ep, snd, sres, ex>>
    /\ ep.kind = "EpCredentialsDefaultSwitchSave"
    /\ eph' = [eph EXCEPT !.exc = EpCredentialsDefaultSwitchSaveBody(ep).exc, !.op = "body"]

\* a read of ep.body on an EpCredentialsRobotSwitchSave
EpReadRobotBody ==
    /\ UNCHANGED <<inv, ires, bo, bres, snd, sres, ex>>
    /\ ep.kind = "EpCredentialsRobotSwitchSave"
    /\ \E b \in {EpCredentialsRobotSwitchSaveBody(ep)} :
          /\ ep' = b.ep
          /\ eph' = [eph EXCEPT !.exc = b.exc, !.op = "body"]

\* the caller adds a key to the dictionary that ep.body returned
EpBodyAddKey ==
    /\ UNCHANGED <<inv, ires, bo, bres, snd, sres, ex>>
    /\ ep.kind = "EpCredentialsDefaultSwitchSave"
    /\ EpCredentialsDefaultSwitchSaveBody(ep).exc = NoExc
    /\ ep' = [ep EXCEPT !.body = DictSet(@, "extra", <<"x">>)]
    /\ eph' = [eph EXCEPT !.exc = NoExc, !.op = "body[extra]"]

EpNext ==
    \/ EpSetFilter
    \/ EpSetLimit
    \/ EpSetMax
    \/ EpSetOffset
    \/ EpSetSort
    \/ EpFabricsCommit
    \/ EpSetFabricName
    \/ EpSwitchesCommit
    \/ EpSetSwitchUsername
    \/ EpSetSwitchPassword
    \/ EpSaveCommit
    \/ EpReadBody
    \/ EpReadRobotBody
    \/ EpBodyAddKey

SpecEp == EpInit /\ [][EpNext]_vars

\* ------------------------------------------------------------------------
\* Endpoint descriptors: properties
\* ------------------------------------------------------------------------

\* C9: commit() on a fabrics endpoint is idempotent: with query filter
\* parameters set and not changed in between, the path after the second and
\* any later commit() equals the path after the first commit().
C9_CommitIdempotent ==
    (/\ ep.kind = "EpFabricsGet"
     /\ eph.commits >= 2
     /\ ~eph.changed)
    => ep.path = eph.first_path

\* the segments of a token sequence between its "&" tokens
RECURSIVE SplitAmpersand(_, _)
SplitAmpersand(s, current) ==
    IF s = <<>> THEN <<current>>
    ELSE IF Head(s) = "&" THEN <<current>> \o SplitAmpersand(Tail(s), <<>>)
    ELSE SplitAmpersand(Tail(s), Append(current, Head(s)))

\* the key=value pairs of the parameters of q that are set
SetPairs(q) ==
    (IF q.filter # <<>> THEN {<<"filter=">> \o q.filter} ELSE {})
    \cup (IF q.limit # 0 THEN {<<"limit=", ToString(q.limit)>>} ELSE {})
    \cup (IF q.max # 0 THEN {<<"max=", ToString(q.max)>>} ELSE {})
    \cup (IF q.offset # 0 THEN {<<"offset=", ToString(q.offset)>>} ELSE {})
    \cup (IF q.sort # <<>> THEN {<<"sort=">> \o q.sort} ELSE {})

\* qs is the pairs of q, each once, separated by "&"
IsQueryStringOf(qs, q) ==
    IF SetPairs(q) = {} THEN qs = <<>>
    ELSE LET segments == SplitAmpersand(qs, <<>>)
         IN  /\ Len(segments) = Cardinality(SetPairs(q))
             /\ { segments[i] : i \in DOMAIN segments } = SetPairs(q)

\* what follows "?" in a path
RECURSIVE PathQuery(_)
PathQuery(path) ==
    IF path = <<>> THEN <<>>
    ELSE IF Head(path) = "?" THEN Tail(path)
    ELSE PathQuery(Tail(path))

NonBlank(value) == \E i \in DOMAIN value : value[i] # " "

\* body holds both credentials, non-blank, and nothing else
AcceptableBody(body) ==
    /\ DOMAIN body = {"switchUsername", "switchPassword"}
    /\ NonBlank(body["switchUsername"])
    /\ NonBlank(body["switchPassword"])

\* C13: EpCredentialsDefaultSwitchSave.commit() raises ValueError unless the
\* body holds switchUsername and switchPassword, both non-empty after
\* whitespace stripping, and no other key; body raises ValueError as long as
\* no commit() has succeeded, also after a commit() that raised.
C13_SaveEndpointValidation ==
    ep.kind = "EpCredentialsDefaultSwitchSave"
    => /\ eph.op = "commit" =>
              /\ (eph.exc = NoExc) <=> AcceptableBody(ep.body)
              /\ eph.exc # NoExc => eph.exc.type = "ValueError"
       /\ eph.commits = 0 =>
              /\ EpCredentialsDefaultSwitchSaveBody(ep).exc.type = "ValueError"
              /\ eph.op = "body" => eph.exc.type = "ValueError"

\* a commit() refused for a whitespace-only user name, body still guarded
C13_Witness ==
    /\ ep.kind = "EpCredentialsDefaultSwitchSave"
    /\ eph.op = "commit"
    /\ eph.commits = 0
    /\ DOMAIN ep.body = {"switchUsername", "switchPassword"}
    /\ ep.body["switchUsername"] = <<" ">>
    /\ ep.body["switchPassword"] = <<"admin">>
    /\ eph.exc.type = "ValueError"

\* the base path of an endpoint class
BasePath(kind) ==
    CASE kind = "EpFabricsGet" -> FABRICS
      [] kind = "EpSwitchesInventoryGet" -> SWITCHES
      [] kind = "EpCredentialsRobotSwitchSave" -> CREDENTIALS \o <<"/robotSwitchCredentials">>
      [] OTHER -> CREDENTIALS \o <<"/defaultSwitchCredentials">>

\* C10: an endpoint's path is not modified before commit(): whatever is
\* assigned to the query filter parameters or to fabric_name on a freshly
\* constructed endpoint, path stays the base path until the first commit().
C10_PathUnchangedBeforeCommit ==
    eph.commits = 0 => ep.path = BasePath(ep.kind)

\* parameters have been assigned, no commit has returned yet
C10_Witness ==
    /\ ep.kind = "EpFabricsGet"
    /\ eph.commits = 0
    /\ ep.query_string.filter # <<>>
    /\ ep.query_string.max # 0
    /\ ep.path = FABRICS

\* ------------------------------------------------------------------------
\* Business objects: actions
\* ------------------------------------------------------------------------

MaxBoCommits == 2

BoFabrics == {<<"f1">>, <<"f2">>}

\* what the controller can answer to an inventory request of a business object
BoSwitchLists ==
    { <<Switch("n1", "i1", "s1", TRUE), Switch("n2", "i2", "s2", TRUE)>>,
      <<Switch("n1", "i1", "s1", TRUE)>>,
      <<Without(Switch("n1", "i1", "s1", TRUE), "serialNumber"),
        Switch("n2", "i2", "s2", TRUE)>> }

Item(fabric_name, switch_name) == [fabric_name |-> fabric_name, switch_name |-> switch_name]

\* lists of configuration items: one fabric, one fabric twice, two fabrics
ItemLists ==
    { <<Item(<<"f1">>, "n1")>>,
      <<Item(<<"f1">>, "n1"), Item(<<"f1">>, "n2")>>,
      <<Item(<<"f1">>, "n1"), Item(<<"f2">>, "n2")>>,
      <<Item(<<"f2">>, "n2")>> }

\* values for CredentialsUserSwitchDelete.config: the default, and lists
DeleteConfigs == {EmptyDict} \cup ItemLists

\* values for CredentialsUserSwitchSave.config: the default, objects with a
\* switches list, and a CredentialsUserSwitchSaveConfigValidator (whose list
\* is called config)
SaveConfigs ==
    {EmptyDict}
    \cup { [switches |-> l, switch_username |-> <<"admin">>, switch_password |-> <<"pw">>] :
             l \in ItemLists \cup {<<>>} }
    \cup { [config |-> l] : l \in {<<Item(<<"f1">>, "n1")>>} }

CredentialValues == {<<>>, <<" ">>, <<"admin">>}

\* values for CredentialsRobotSwitchSave.config: None, and validated models
RobotConfigs ==
    {EmptyDict}
    \cup { [switch_username |-> u, switch_password |-> <<"pw">>] : u \in {<<" ">>, <<"admin">>} }

\* a freshly constructed business object of any class
BoInit ==
    /\ ExStart
    /\ InvStart
    /\ EpStart
    /\ SndStart
    /\ bo \in {CredentialsDetailsGetInit, CredentialsDefaultSwitchGetInit, FabricDetailGetInit,
               CredentialsUserSwitchGetInit, CredentialsDefaultSwitchDeleteInit,
               CredentialsDefaultSwitchSaveInit, CredentialsRobotSwitchSaveInit,
               CredentialsUserSwitchSaveInit, CredentialsUserSwitchDeleteInit,
               SwitchesInventoryGetInit}
    /\ bres = BRes("init", Refused(bo, NoExc), bo, FALSE, 0)

\* a call that is not commit() and raised exc
BoCalled(op, exc) ==
    bres' = BRes(op, Refused(bo, exc), bo, bres.ever_ok, bres.commits)

\* commit() returned or raised as c tells
BoCommitted(c) ==
    /\ bo' = c.o
    /\ bres' = BRes("commit", c, bo, bres.ever_ok \/ c.exc = NoExc, bres.commits + 1)

\* instance.rest_send = value
BoSetRestSend ==
    /\ UNCHANGED <<inv, ires, ep, eph, snd, sres, ex>>
    /\ \E value \in RestSendValues :
          /\ bo' = [bo EXCEPT !.rest_send = value]
          /\ BoCalled("rest_send", NoExc)

\* commit() of the four guarded getters
BoGetterCommit(kind) ==
    /\ UNCHANGED <<inv, ires, ep, eph, snd, sres, ex>>
    /\ bo.kind = kind
    /\ bres.commits < MaxBoCommits
    /\ \E out \in TryOutcomes(GetStages) : BoCommitted(GetterCommit(bo, out))

CredentialsDetailsGetCommit == BoGetterCommit("CredentialsDetailsGet")

CredentialsDefaultSwitchGetCommit == BoGetterCommit("CredentialsDefaultSwitchGet")

FabricDetailGetCommit == BoGetterCommit("FabricDetailGet")

\* items of DATA.items of the user switch credentials response
CredentialItem(switch_name, switch_id) ==
    [credentialStore |-> "local", fabricName |-> "f1", ip |-> "i1", switchId |-> switch_id,
     switchName |-> switch_name, switchUsername |-> "admin", type |-> "custom"]

NotADict == [not_a_dict |-> TRUE]

CredentialItemLists ==
    { <<>>,
      <<CredentialItem("n1", "s1")>>,
      <<CredentialItem("n1", "s1"), CredentialItem("n2", "s2")>>,
      <<CredentialItem("n1", "s1"), CredentialItem("n1", "s9")>>,
      <<NotADict, Without(CredentialItem("n2", "s2"), "switchName")>> }

FilterNames == {None, "", "n1", "n2", "zz"}

\* CredentialsUserSwitchGet: instance.commit()
CredentialsUserSwitchGetCommit ==
    /\ UNCHANGED <<inv, ires, ep, eph, snd, sres, ex>>
    /\ bo.kind = "CredentialsUserSwitchGet"
    /\ bres.commits < MaxBoCommits
    /\ \E out \in TryOutcomes(GetStages), items \in CredentialItemLists :
          \E c \in {CredentialsUserSwitchGetCommitWith(bo, out, items)} :
              /\ (out # TryOk \/ bo.rest_send = None) => items = <<>>
              /\ BoCommitted(c)

\* CredentialsUserSwitchGet: instance.filter = value
BoSetFilter ==
    /\ UNCHANGED <<inv, ires, ep, eph, snd, sres, ex>>
    /\ bo.kind = "CredentialsUserSwitchGet"
    /\ \E value \in FilterNames :
          \E r \in {CredentialsUserSwitchGetSetFilter(bo, value)} :
              /\ bo' = r.o
              /\ BoCalled("filter", r.exc)

\* CredentialsUserSwitchGet: instance.set_filtered_data()
BoSetFilteredData ==
    /\ UNCHANGED <<inv, ires, ep, eph, snd, sres, ex>>
    /\ bo.kind = "CredentialsUserSwitchGet"
    /\ \E r \in {set_filtered_data(bo)} :
          /\ bo' = r.o
          /\ BoCalled("set_filtered_data", r.exc)

\* a read of a response accessor of a guarded getter: data reads the
\* response held by rest_send, filtered_data the instance's own dict
BoReadAccessor ==
    /\ UNCHANGED <<inv, ires, ep, eph, bo, snd, sres, ex>>
    /\ bo.kind \in GuardedGetters
    /\ \E method_name \in IF bo.kind = "CredentialsUserSwitchGet"
                          THEN {"data", "filtered_data"} ELSE {"data"} :
          LET guard == error_if_not_committed(bo, method_name)
          IN  BoCalled("read",
                       IF guard # NoExc THEN guard
                       ELSE IF method_name = "data" /\ bo.rest_send = None
                       THEN Exc("AttributeError", <<"response_current">>)
                       ELSE NoExc)

\* CredentialsDefaultSwitchDelete: instance.commit()
BoDefaultSwitchDeleteCommit ==
    /\ UNCHANGED <<inv, ires, ep, eph, snd, sres, ex>>
    /\ bo.kind = "CredentialsDefaultSwitchDelete"
    /\ bres.commits < MaxBoCommits
    /\ \E out \in TryOutcomes(GetStages) :
          BoCommitted(CredentialsDefaultSwitchDeleteCommit(bo, out))

\* CredentialsDefaultSwitchSave: instance.switch_username = value
BoSetSwitchUsername ==
    /\ UNCHANGED <<inv, ires, ep, eph, snd, sres, ex>>
    /\ bo.kind = "CredentialsDefaultSwitchSave"
    /\ \E value \in CredentialValues :
          /\ bo' = [bo EXCEPT !.switch_username = value]
          /\ BoCalled("switch_username", NoExc)

\* CredentialsDefaultSwitchSave: instance.switch_password = value
BoSetSwitchPassword ==
    /\ UNCHANGED <<inv, ires, ep, eph, snd, sres, ex>>
    /\ bo.kind = "CredentialsDefaultSwitchSave"
    /\ \E value \in CredentialValues :
          /\ bo' = [bo EXCEPT !.switch_password = value]
          /\ BoCalled("switch_password", NoExc)

\* CredentialsDefaultSwitchSave: instance.commit()
BoDefaultSwitchSaveCommit ==
    /\ UNCHANGED <<inv, ires, ep, eph, snd, sres, ex>>
    /\ bo.kind = "CredentialsDefaultSwitchSave"
    /\ bres.commits < MaxBoCommits
    /\ \E out \in TryOutcomes(PostStages) :
          BoCommitted(CredentialsDefaultSwitchSaveCommit(bo, out))

\* instance.config = value on the three classes that take a configuration
BoSetConfig ==
    /\ UNCHANGED <<inv, ires, ep, eph, snd, sres, ex>>
    /\ bo.kind \in UserSwitchKinds \cup {"CredentialsRobotSwitchSave"}
    /\ \E value \in CASE bo.kind = "CredentialsRobotSwitchSave" -> RobotConfigs
                      [] bo.kind = "CredentialsUserSwitchSave" -> SaveConfigs
                      [] OTHER -> DeleteConfigs :
          /\ bo' = [bo EXCEPT !.config = value]
          /\ BoCalled("config", NoExc)

\* CredentialsRobotSwitchSave: instance.commit()
BoRobotSwitchSaveCommit ==
    /\ UNCHANGED <<inv, ires, ep, eph, snd, sres, ex>>
    /\ bo.kind = "CredentialsRobotSwitchSave"
    /\ bres.commits < MaxBoCommits
    /\ \E out \in TryOutcomes(PostStages) :
          BoCommitted(CredentialsRobotSwitchSaveCommit(bo, out))

\* what the inventory requests of one commit() meet, per fabric
InventoryControls == [BoFabrics -> InventoryResponses(BoSwitchLists)]

\* CredentialsUserSwitchSave: instance.commit()
BoUserSwitchSaveCommit ==
    /\ UNCHANGED <<inv, ires, ep, eph, snd, sres, ex>>
    /\ bo.kind = "CredentialsUserSwitchSave"
    /\ bres.commits < MaxBoCommits
    /\ \E ctl \in InventoryControls, out \in TryOutcomes(PostStages) :
          \E c \in {CredentialsUserSwitchSaveCommit(bo, ctl, out)} : BoCommitted(c)

\* CredentialsUserSwitchDelete: instance.commit()
BoUserSwitchDeleteCommit ==
    /\ UNCHANGED <<inv, ires, ep, eph, snd, sres, ex>>
    /\ bo.kind = "CredentialsUserSwitchDelete"
    /\ bres.commits < MaxBoCommits
    /\ \E ctl \in InventoryControls, out \in TryOutcomes(PostStages) :
          \E c \in {CredentialsUserSwitchDeleteCommit(bo, ctl, out)} : BoCommitted(c)

\* SwitchesInventoryGet: instance.fabric_name = value
BoSetFabricName ==
    /\ UNCHANGED <<inv, ires, ep, eph, snd, sres, ex>>
    /\ bo.kind = "SwitchesInventoryGet"
    /\ \E value \in FabricNames :
          /\ bo' = [bo EXCEPT !.fabric_name = value]
          /\ BoCalled("fabric_name", NoExc)

\* SwitchesInventoryGet: instance.commit()
BoInventoryCommit ==
    /\ UNCHANGED <<inv, ires, ep, eph, snd, sres, ex>>
    /\ bo.kind = "SwitchesInventoryGet"
    /\ bres.commits < MaxBoCommits
    /\ \E resp \in InventoryResponses(BoSwitchLists) :
          BoCommitted(SwitchesInventoryGetCommit(bo, resp[1], resp[2]))

BoNext ==
    \/ BoSetRestSend
    \/ CredentialsDetailsGetCommit
    \/ CredentialsDefaultSwitchGetCommit
    \/ FabricDetailGetCommit
    \/ CredentialsUserSwitchGetCommit
    \/ BoReadAccessor
    \/ BoSetFilter
    \/ BoSetFilteredData
    \/ BoDefaultSwitchDeleteCommit
    \/ BoSetSwitchUsername
    \/ BoSetSwitchPassword
    \/ BoDefaultSwitchSaveCommit
    \/ BoSetConfig
    \/ BoRobotSwitchSaveCommit
    \/ BoUserSwitchSaveCommit
    \/ BoUserSwitchDeleteCommit
    \/ BoSetFabricName
    \/ BoInventoryCommit

SpecBo == BoInit /\ [][BoNext]_vars

\* ------------------------------------------------------------------------
\* Business objects: properties
\* ------------------------------------------------------------------------

\* C1 (as stated): one commit() that returns without raising causes exactly
\* one call of rest_send.commit().
C1_ExactlyOneRoundTrip ==
    (bres.op = "commit" /\ bres.exc = NoExc) => Len(bres.calls) = 1

\* the configured items of a CredentialsUserSwitchSave / Delete
ConfiguredItems(o) ==
    IF o.kind = "CredentialsUserSwitchSave" THEN o.config.switches ELSE o.config

\* the fabrics a commit() of o had to fetch: those its configuration names
\* and that were not in its fabric inventory when commit() was called
FetchedFabrics(o, cached_before) ==
    IF o.kind \in UserSwitchKinds
    THEN { ConfiguredItems(o)[i].fabric_name : i \in DOMAIN ConfiguredItems(o) } \ cached_before
    ELSE {}

\* C1 (amended): a commit() that returns without raising makes exactly one
\* rest_send.commit() call with the object's own endpoint, and it is the last
\* one; on CredentialsUserSwitchSave and CredentialsUserSwitchDelete it is
\* preceded by exactly one inventory GET for each distinct fabric of the
\* configuration that was not yet in the instance's fabric inventory; on
\* every other class it is the only call.
C1_OneRequestPlusInventoryFetches ==
    (bres.op = "commit" /\ bres.exc = NoExc)
    => LET fetched == FetchedFabrics(bo, bres.cached_before)
           n == Len(bres.calls)
       IN  /\ n = 1 + Cardinality(fetched)
           /\ bres.calls[n].verb = bo.endpoint.verb
           /\ bres.calls[n].path = bo.endpoint.path
           /\ { bres.calls[i].path : i \in 1..(n - 1) }
                = { SWITCHES \o <<"?fabricName=">> \o f : f \in fetched }
           /\ \A i \in 1..(n - 1) : bres.calls[i].verb = "GET"

\* a delete of switches in two fabrics, one of them fetched by an earlier
\* commit(): two requests
C1_Witness ==
    /\ bres.op = "commit"
    /\ bres.exc = NoExc
    /\ bo.kind = "CredentialsUserSwitchDelete"
    /\ bres.cached_before = {<<"f1">>}
    /\ DOMAIN bo.fabric_inventory = BoFabrics
    /\ Len(bres.calls) = 2

\* C2: on the four guarded getters a response accessor raises ValueError
\* exactly when no commit() of the instance has returned without raising,
\* whatever commit() calls, failing or not, were made.
C2_CommitGuard ==
    bo.kind \in GuardedGetters
    => /\ (error_if_not_committed(bo, "data") # NoExc) <=> ~bres.ever_ok
       /\ bres.op = "read" => ((bres.exc.type = "ValueError") <=> ~bres.ever_ok)

\* an accessor read after a commit() that raised: still refused
C2_Witness ==
    /\ bo.kind \in GuardedGetters
    /\ bres.op = "read"
    /\ bres.commits >= 1
    /\ ~bres.ever_ok
    /\ bres.exc.type = "ValueError"

\* C3: when rest_send raises TypeError or ValueError in commit(), at the
\* assignment of path, verb or payload or in rest_send.commit(), commit()
\* raises ValueError with a message containing the error's text and
\* _committed keeps the value it had before the call.
C3_ExceptionTranslation ==
    (bres.op = "commit" /\ bres.orig # NoExc)
    => /\ bres.exc.type = "ValueError"
       /\ Contains(bres.exc.msg, bres.orig.msg)
       /\ "committed" \in DOMAIN bo => bo.committed = bres.was_committed

\* a TypeError in the commit() of an instance that had committed before
C3_Witness ==
    /\ bres.op = "commit"
    /\ bres.orig.type = "TypeError"
    /\ bres.was_committed
    /\ bo.committed
    /\ bres.exc.type = "ValueError"

\* the dict items of the response whose switchName is the filter
MatchingItems(o) ==
    { o.response[i] : i \in { j \in DOMAIN o.response :
                                 /\ IsDict(o.response[j])
                                 /\ DictGetDefault(o.response[j], "switchName", "") = o.filter } }

FilteredKeys == DOMAIN FilteredDataDefault

\* C12: on a committed CredentialsUserSwitchGet, when set_filtered_data()
\* has returned: with filter not set or naming no switch of data,
\* filtered_data is the dictionary of seven '' values and every accessor
\* returns ''; with filter naming a switch of data, filtered_data and the
\* accessors give the values of an item of data with that switchName.
C12_FilteredDataFollowsFilter ==
    (/\ bo.kind = "CredentialsUserSwitchGet"
     /\ bo.committed
     /\ bres.op = "set_filtered_data"
     /\ bres.exc = NoExc)
    => IF bo.filter = "" \/ MatchingItems(bo) = {}
       THEN /\ bo.filtered_data = FilteredDataDefault
            /\ \A key \in FilteredKeys : FilteredAccessor(bo, key) = ""
       ELSE \E item \in MatchingItems(bo) :
                /\ bo.filtered_data = item
                /\ \A key \in FilteredKeys : FilteredAccessor(bo, key) = item[key]

\* C14: CredentialsDefaultSwitchSave.commit() with an empty or
\* whitespace-only switch_username or switch_password raises ValueError
\* without calling rest_send.commit(); a request that is sent carries exactly
\* switchUsername and switchPassword with the values set on the object.
C14_DefaultSavePayload ==
    (bo.kind = "CredentialsDefaultSwitchSave" /\ bres.op = "commit")
    => /\ (~NonBlank(bo.switch_username) \/ ~NonBlank(bo.switch_password))
              => (bres.exc.type = "ValueError" /\ bres.calls = <<>>)
       /\ \A i \in DOMAIN bres.calls :
              /\ bres.calls[i].payload = [switchUsername |-> bo.switch_username,
                                          switchPassword |-> bo.switch_password]
              /\ NonBlank(bres.calls[i].payload["switchUsername"])
              /\ NonBlank(bres.calls[i].payload["switchPassword"])

\* a whitespace-only user name: refused, nothing sent
C14_Witness ==
    /\ bo.kind = "CredentialsDefaultSwitchSave"
    /\ bres.op = "commit"
    /\ bo.switch_username = <<" ">>
    /\ bo.switch_password = <<"admin">>
    /\ bo.rest_send # None
    /\ bres.exc.type = "ValueError"
    /\ bres.calls = <<>>

\* C15: the payload sent by a successful CredentialsUserSwitchSave.commit()
\* has switchIds with one {switchId: serial} per configured switch, in
\* configuration order, serial being the serialNumber of the record named
\* item.switch_name in the inventory of item.fabric_name, and switchUsername
\* and switchPassword as configured; it has nothing else.
C15_UserSavePayload ==
    (/\ bo.kind = "CredentialsUserSwitchSave"
     /\ bres.op = "commit"
     /\ bres.exc = NoExc)
    => LET items == bo.config.switches
           sent == bres.calls[Len(bres.calls)].payload
       IN  /\ DOMAIN sent = {"switchIds", "switchUsername", "switchPassword"}
           /\ Len(sent["switchIds"]) = Len(items)
           /\ \A i \in DOMAIN items :
                  /\ items[i].fabric_name \in DOMAIN bo.fabric_inventory
                  /\ items[i].switch_name \in DOMAIN bo.fabric_inventory[items[i].fabric_name]
                  /\ sent["switchIds"][i] =
                        [switchId |-> bo.fabric_inventory[items[i].fabric_name]
                                                         [items[i].switch_name]["serialNumber"]]
           /\ sent["switchUsername"] = bo.config.switch_username
           /\ sent["switchPassword"] = bo.config.switch_password

\* two switches in two fabrics saved by one commit()
C15_Witness ==
    /\ bo.kind = "CredentialsUserSwitchSave"
    /\ bres.op = "commit"
    /\ bres.exc = NoExc
    /\ Len(bo.config.switches) = 2
    /\ bo.config.switches[1].fabric_name # bo.config.switches[2].fabric_name
    /\ bres.calls[Len(bres.calls)].payload["switchIds"] = <<[switchId |-> "s1"], [switchId |-> "s2"]>>

\* item names a switch that the instance's inventory of the item's fabric
\* holds with a serial number
Resolvable(o, item) ==
    /\ item.fabric_name \in DOMAIN o.fabric_inventory
    /\ item.switch_name \in DOMAIN o.fabric_inventory[item.fabric_name]
    /\ "serialNumber" \in DOMAIN o.fabric_inventory[item.fabric_name][item.switch_name]

\* the configured items, none for a configuration that has no item list
ItemsOf(o) ==
    IF o.kind = "CredentialsUserSwitchDelete" THEN o.config
    ELSE IF "switches" \in DOMAIN o.config THEN o.config.switches
    ELSE <<>>

\* C16: in CredentialsUserSwitchSave.commit() and
\* CredentialsUserSwitchDelete.commit(), when a configured item names a
\* switch that is not in its fabric's inventory or has no serial number,
\* commit() raises ValueError, no POST is sent (inventory GETs only) and
\* _committed keeps its value.
C16_AllOrNothing ==
    (/\ bo.kind \in UserSwitchKinds
     /\ bres.op = "commit"
     /\ \E i \in DOMAIN ItemsOf(bo) : ~Resolvable(bo, ItemsOf(bo)[i]))
    => /\ bres.exc.type = "ValueError"
       /\ \A i \in DOMAIN bres.calls : bres.calls[i].verb = "GET"
       /\ bo.committed = bres.was_committed

\* the second of two switches of a fabric is not in the inventory that
\* was fetched for the first
C16_Witness ==
    /\ bo.kind = "CredentialsUserSwitchDelete"
    /\ bres.op = "commit"
    /\ Len(bo.config) = 2
    /\ Resolvable(bo, bo.config[1])
    /\ ~Resolvable(bo, bo.config[2])
    /\ bo.config[2].fabric_name \in DOMAIN bo.fabric_inventory
    /\ Len(bres.calls) = 1
    /\ bres.exc.type = "ValueError"
    /\ ~bo.committed

\* C17: after a CredentialsUserSwitchDelete.commit() that succeeds, whatever
\* commits came before, result holds exactly one line per switch of the
\* configuration of that commit, and no line of an earlier commit().
C17_DeleteResultOfThisCommit ==
    (/\ bo.kind = "CredentialsUserSwitchDelete"
     /\ bres.op = "commit"
     /\ bres.exc = NoExc)
    => /\ Len(bo.result) = Len(bo.config)
       /\ \A i \in DOMAIN bo.config :
              /\ bo.result[i][1] = bo.config[i].fabric_name
              /\ bo.result[i][2] = bo.config[i].switch_name

\* ------------------------------------------------------------------------
\* File-based Sender: actions
\* ------------------------------------------------------------------------

ResponseValues == {"r1", "r2"}

\* the generator functions a test hands to ResponseGenerator
ResponseLists == UNION { [1..n -> ResponseValues] : n \in 0..MaxResponses }

\* members of Exceptions, and None
RaiseExceptions == {None, "ValueError", "KeyError"}

SndInit ==
    /\ ExStart
    /\ InvStart
    /\ EpStart
    /\ BoStart
    /\ SndStart

\* a call other than commit() and response that leaves the counters alone
SndCalled(op, exc) ==
    sres' = SRes(op, exc, None, snd, sres.reads, sres.commit_seen)

\* sender.gen = value
SndSetGen ==
    /\ UNCHANGED <<inv, ires, ep, eph, bo, bres, ex>>
    /\ \E value \in { ResponseGenerator(l) : l \in ResponseLists } \cup {[implements |-> "other"]} :
          \E r \in {SenderSetGen(snd, value)} :
              /\ snd' = r.s
              /\ sres' = IF r.exc = NoExc THEN SRes("gen", NoExc, None, snd, 0, FALSE)
                         ELSE SRes("gen", r.exc, None, snd, sres.reads, sres.commit_seen)

\* sender.path = value
SndSetPath ==
    /\ UNCHANGED <<inv, ires, ep, eph, bo, bres, ex>>
    /\ \E value \in {"", "/p"} :
          /\ snd' = [snd EXCEPT !.path = value]
          /\ SndCalled("path", NoExc)

\* sender.verb = value
SndSetVerb ==
    /\ UNCHANGED <<inv, ires, ep, eph, bo, bres, ex>>
    /\ \E value \in {"", "GET"} :
          /\ snd' = [snd EXCEPT !.verb = value]
          /\ SndCalled("verb", NoExc)

\* sender.payload = value
SndSetPayload ==
    /\ UNCHANGED <<inv, ires, ep, eph, bo, bres, ex>>
    /\ \E value \in {None, "payload"} :
          /\ snd' = [snd EXCEPT !.payload = value]
          /\ SndCalled("payload", NoExc)

\* sender.raise_exception = value
SndSetRaiseException ==
    /\ UNCHANGED <<inv, ires, ep, eph, bo, bres, ex>>
    /\ \E value \in RaiseExceptions :
          /\ snd' = [snd EXCEPT !.raise_exception = value]
          /\ SndCalled("raise_exception", NoExc)

\* sender.raise_method = value
SndSetRaiseMethod ==
    /\ UNCHANGED <<inv, ires, ep, eph, bo, bres, ex>>
    /\ \E value \in {"unknown", "commit", "response"} :
          /\ snd' = [snd EXCEPT !.raise_method = value]
          /\ SndCalled("raise_method", NoExc)

\* sender.raise_message = value
SndSetRaiseMessage ==
    /\ UNCHANGED <<inv, ires, ep, eph, bo, bres, ex>>
    /\ \E value \in {"Simulated exception for testing", "boom"} :
          /\ snd' = [snd EXCEPT !.raise_message = value]
          /\ SndCalled("raise_message", NoExc)

\* sender.commit()
SndCommit ==
    /\ UNCHANGED <<inv, ires, ep, eph, bo, bres, ex>>
    /\ \E c \in {SenderCommit(snd)} :
          /\ snd' = c.s
          /\ sres' = SRes("commit", c.exc, None, snd, sres.reads,
                          sres.commit_seen \/ c.exc = NoExc)

\* a read of sender.response
SndResponse ==
    /\ UNCHANGED <<inv, ires, ep, eph, bo, bres, ex>>
    /\ \E r \in {SenderResponse(snd)} :
          /\ snd' = r.s
          /\ sres' = SRes("response", r.exc, r.ret, snd,
                          IF r.exc = NoExc THEN sres.reads + 1 ELSE sres.reads,
                          sres.commit_seen)

SndNext ==
    \/ SndSetGen
    \/ SndSetPath
    \/ SndSetVerb
    \/ SndSetPayload
    \/ SndSetRaiseException
    \/ SndSetRaiseMethod
    \/ SndSetRaiseMessage
    \/ SndCommit
    \/ SndResponse

SpecSnd == SndInit /\ [][SndNext]_vars

\* ------------------------------------------------------------------------
\* File-based Sender: properties
\* ------------------------------------------------------------------------

\* the sender was set up to simulate an exception in commit()
SimulatesInCommit(s) == s.raise_exception # None /\ s.raise_method = "commit"

WithAttrs(o, attrs) ==
    [k \in DOMAIN o \cup DOMAIN attrs |-> IF k \in DOMAIN attrs THEN attrs[k] ELSE o[k]]

\* what action() does with the outcome c of instance.commit(): the except
\* clause catches ValueError only
ExamplePrinted(c) ==
    IF c.exc = NoExc THEN "saved"
    ELSE IF c.exc.type = "ValueError" THEN "error"
    ELSE "traceback"

\* examples/credentials_user_switch_save.py: action(cfg)
ExampleUserSwitchSaveAction(cfg, ctl, out) ==
    LET instance == WithAttrs(CredentialsUserSwitchSaveInit,
                              [rest_send |-> "RestSend",
                               fabric_name |-> cfg.fabric_name,
                               switch_name |-> cfg.switch_name,
                               switch_username |-> cfg.switch_username,
                               switch_password |-> cfg.switch_password])
    IN  CHOOSE r \in { [printed |-> ExamplePrinted(c), calls |-> c.calls, exc |-> c.exc] :
                          c \in {CredentialsUserSwitchSaveCommit(instance, ctl, out)} } : TRUE

\* examples/credentials_robot_switch_save.py: action(cfg)
ExampleRobotSwitchSaveAction(cfg, out) ==
    LET instance == WithAttrs(CredentialsRobotSwitchSaveInit,
                              [rest_send |-> "RestSend",
                               switch_username |-> cfg.switch_username,
                               switch_password |-> cfg.switch_password])
    IN  CHOOSE r \in { [printed |-> ExamplePrinted(c), calls |-> c.calls, exc |-> c.exc] :
                          c \in {CredentialsRobotSwitchSaveCommit(instance, out)} } : TRUE

\* the lines action() of credentials_user_switch_get.py prints under "User
\* switch credentials (specific switch)"
SpecificSwitchSection(o) ==
    [filtered_data |-> o.filtered_data,
     credential_store |-> FilteredAccessor(o, "credentialStore"),
     credential_type |-> FilteredAccessor(o, "type"),
     ip |-> FilteredAccessor(o, "ip"),
     switch_id |-> FilteredAccessor(o, "switchId"),
     switch_name |-> FilteredAccessor(o, "switchName"),
     switch_username |-> FilteredAccessor(o, "switchUsername")]

\* action() after instance.commit(), whose outcome is c, returned: the
\* filter is assigned when cfg.filter is truthy, data is printed, and the
\* specific-switch section follows only when instance.data_filtered
ExampleUserSwitchGetPrint(c, cfg) ==
    LET instance == IF cfg.filter # ""
                    THEN CredentialsUserSwitchGetSetFilter(c.o, cfg.filter).o
                    ELSE c.o
    IN  IF ~instance.data_filtered
        THEN [printed |-> "all", data |-> instance.response, section |-> EmptyDict,
              calls |-> c.calls]
        ELSE [printed |-> "specific", data |-> instance.response,
              section |-> SpecificSwitchSection(instance), calls |-> c.calls]

\* examples/credentials_user_switch_get.py: action(cfg)
ExampleUserSwitchGetAction(cfg, out, items) ==
    CHOOSE r \in { IF c.exc # NoExc
                   THEN [printed |-> "error", data |-> <<>>, section |-> EmptyDict,
                         calls |-> c.calls]
                   ELSE ExampleUserSwitchGetPrint(c, cfg) :
                   c \in {CredentialsUserSwitchGetCommitWith(
                              [CredentialsUserSwitchGetInit EXCEPT !.rest_send = "RestSend"],
                              out, items)} } : TRUE

\* validated CredentialsUserSwitchGetConfigValidator models: filter is a
\* string, "" by default
ExampleGetConfigs == { [filter |-> f] : f \in {"", "n1", "n2", "zz"} }

\* strings that pass Field(..., min_length=1)
ExampleStrings == {<<"admin">>, <<"pw">>, <<" ">>}

\* items of a validated CredentialsUserSwitchSaveConfigValidator
ExampleUserConfigs ==
    { [fabric_name |-> f, switch_name |-> n, switch_username |-> u, switch_password |-> p] :
        f \in BoFabrics, n \in {"n1", "n2"}, u \in ExampleStrings, p \in ExampleStrings }

\* the fields action() reads of a validated robot configuration
ExampleRobotConfigs ==
    { [switch_username |-> u, switch_password |-> p] :
        u \in ExampleStrings, p \in ExampleStrings }

\* what the controller answers to the inventory requests of action(): the
\* request fails, or both switches are listed
ExampleInventoryControls ==
    [BoFabrics -> { <<[at |-> "commit", err |-> Exc("ValueError", <<"e1">>)], <<>>>>,
                    <<TryOk, <<Switch("n1", "i1", "s1", TRUE),
                               Switch("n2", "i2", "s2", TRUE)>>>> }]

ExInit ==
    /\ InvStart
    /\ EpStart
    /\ BoStart
    /\ SndStart
    /\ ExStart

\* one item of credentials_user_switch_save.py's "for item in
\* validator.config: action(item)"; every call of action() builds its own
\* instance, so one call is followed from the start of the script
ExUserSwitchSave ==
    /\ UNCHANGED <<inv, ires, ep, eph, bo, bres, snd, sres>>
    /\ ex.script = ""
    /\ \E cfg \in ExampleUserConfigs, ctl \in ExampleInventoryControls,
          out \in TryOutcomes(PostStages) :
          \E r \in {ExampleUserSwitchSaveAction(cfg, ctl, out)} :
              ex' = ExRes("credentials_user_switch_save", cfg, out,
                          \A f \in BoFabrics : ctl[f][1] = TryOk, r.printed, r.calls,
                          <<>>, EmptyDict)

\* credentials_robot_switch_save.py's action(validator)
ExRobotSwitchSave ==
    /\ UNCHANGED <<inv, ires, ep, eph, bo, bres, snd, sres>>
    /\ ex.script = ""
    /\ \E cfg \in ExampleRobotConfigs, out \in TryOutcomes(PostStages) :
          \E r \in {ExampleRobotSwitchSaveAction(cfg, out)} :
              ex' = ExRes("credentials_robot_switch_save", cfg, out, TRUE,
                          r.printed, r.calls, <<>>, EmptyDict)

\* credentials_user_switch_get.py's action(validator)
ExUserSwitchGet ==
    /\ UNCHANGED <<inv, ires, ep, eph, bo, bres, snd, sres>>
    /\ ex.script = ""
    /\ \E cfg \in ExampleGetConfigs, out \in TryOutcomes(GetStages),
          items \in CredentialItemLists :
          \E r \in {ExampleUserSwitchGetAction(cfg, out, items)} :
              ex' = ExRes("credentials_user_switch_get", cfg, out, TRUE,
                          r.printed, r.calls, r.data, r.section)

ExNext ==
    \/ ExUserSwitchSave
    \/ ExRobotSwitchSave
    \/ ExUserSwitchGet

SpecEx == ExInit /\ [][ExNext]_vars

\* ------------------------------------------------------------------------
\* Example scripts: properties
\* ------------------------------------------------------------------------

\* C20: action(cfg) of credentials_user_switch_save.py and of
\* credentials_robot_switch_save.py, given a validated configuration and a
\* rest_send whose every statement succeeds, sends the save request and
\* prints the "credentials saved" line.
C20_ExamplesReachSuccess ==
    (/\ ex.script \in {"credentials_user_switch_save", "credentials_robot_switch_save"}
     /\ ex.out = TryOk
     /\ ex.inventory_ok)
        => (ex.printed = "saved" /\ ex.calls # <<>>)

\* the items of the retrieved data whose switchName is the configured filter
ExampleMatchingItems ==
    { ex.data[i] : i \in { j \in DOMAIN ex.data :
                             /\ IsDict(ex.data[j])
                             /\ DictGetDefault(ex.data[j], "switchName", "") = ex.cfg.filter } }

\* C21: action(cfg) of credentials_user_switch_get.py, when cfg.filter names
\* a switch of the retrieved data and the request succeeds, prints the
\* specific-switch section, and filtered_data and the accessors shown there
\* hold the values of an item of data with that switchName.
C21_ExampleShowsFilteredSwitch ==
    (/\ ex.script = "credentials_user_switch_get"
     /\ ex.out = TryOk
     /\ ex.cfg.filter # ""
     /\ ExampleMatchingItems # {})
    => /\ ex.printed = "specific"
       /\ ex.section.filtered_data \in ExampleMatchingItems
       /\ ex.section.switch_name = ex.cfg.filter
       /\ ex.section.switch_id = ex.section.filtered_data.switchId

\* ------------------------------------------------------------------------
\* Endpoints: further properties
\* ------------------------------------------------------------------------

\* how many times token occurs in path
Occurrences(path, token) == Cardinality({ i \in DOMAIN path : path[i] = token })

\* C22: EpSwitchesInventoryGet.commit() raises ValueError exactly when
\* fabric_name is empty, and then leaves path as it was; otherwise path
\* becomes the base switches path, '?fabricName=' and fabric_name. After
\* any sequence of assignments and commits the path is the base path
\* (no commit has returned yet) or carries exactly one fabricName parameter,
\* the fabric_name of the last commit that returned.
C22_SwitchesPathOfLastCommit ==
    ep.kind = "EpSwitchesInventoryGet"
    => /\ eph.op = "commit" =>
              /\ (eph.exc # NoExc) <=> (ep.fabric_name = <<>>)
              /\ eph.exc # NoExc => eph.exc.type = "ValueError"
              /\ eph.exc = NoExc => eph.last_fabric = ep.fabric_name
       /\ eph.commits = 0 => ep.path = SWITCHES
       /\ eph.commits > 0 =>
              /\ ep.path = SWITCHES \o <<"?fabricName=">> \o eph.last_fabric
              /\ Occurrences(ep.path, "?fabricName=") = 1
              /\ eph.last_fabric # <<>>

\* a second commit() returned, after fabric_name was changed
C22_Witness ==
    /\ ep.kind = "EpSwitchesInventoryGet"
    /\ eph.op = "commit"
    /\ eph.exc = NoExc
    /\ eph.commits = 2
    /\ ep.path # eph.first_path
    /\ ep.path = <<"/switches", "?fabricName=", "f2">>

\* switch_username and switch_password of a save endpoint are set to
\* strings that hold more than whitespace
CredentialsSet(e) ==
    /\ {"switchUsername", "switchPassword"} \subseteq DOMAIN e.body
    /\ NonBlank(e.body["switchUsername"])
    /\ NonBlank(e.body["switchPassword"])

\* C23: EpCredentialsRobotSwitchSave.commit() is repeatable: in any state
\* reached by commit() calls, body reads and credential assignments,
\* commit() returns whenever switch_username and switch_password are set to
\* non-empty strings.
C23_RobotCommitRepeatable ==
    (/\ ep.kind = "EpCredentialsRobotSwitchSave"
     /\ eph.op = "commit"
     /\ CredentialsSet(ep))
    => eph.exc = NoExc

\* C24: every dictionary EpCredentialsDefaultSwitchSave.body returns without
\* raising holds non-empty switchUsername and switchPassword, whatever the
\* interleaving of credential assignments, commit() and body reads.
C24_ReturnedBodyValid ==
    (/\ ep.kind = "EpCredentialsDefaultSwitchSave"
     /\ eph.op = "body"
     /\ eph.exc = NoExc)
    => /\ {"switchUsername", "switchPassword"} \subseteq DOMAIN ep.body
       /\ ep.body["switchUsername"] # <<>>
       /\ ep.body["switchPassword"] # <<>>

====
